---- MODULE Spec2Model ----
(***************************************************************************)
(* Document formatting system: the content-safety classifier, the content  *)
(* fingerprint and integrity validator, the filter stages of the           *)
(* formatters, the safe HTML renderer and the overnight (remote-model)     *)
(* formatter, modelled from the Python sources.                            *)
(*                                                                         *)
(* A text is a sequence of characters; a character is a one-character      *)
(* string.  The two non-ASCII characters of the units pattern are written  *)
(* "A^" and "deg".                                                         *)
(***************************************************************************)
EXTENDS Integers, Sequences, FiniteSets, TLC

VARIABLES
    doc,          \* the input document: a sequence of paragraph texts
    step,         \* position of the run that is being modelled
    safety,       \* assess_paragraph_safety of every paragraph of doc
    zones,        \* result of identify_prohibited_zones
    docinfo,      \* the tables and heading styles of the document
    fingerprint,  \* the ContentFingerprint created from doc
    altered,      \* the numerical value replaced in the candidate text, if any
    candidate,    \* processed_content handed to validate_content_integrity
    integrity,    \* the integrity_checks it returns
    docx,         \* the document handed to the safe formatting engine
    extracted_content,  \* what extract_content_safely returns for it
    active_style_guide, \* the style guide the page is generated with
    html,         \* what generate_safe_html produces
    formatter,    \* the formatter that is run on the input document
    paths,        \* the input_path and output_path it is run with
    input_doc,    \* the paragraph texts of the document at input_path
    output_doc,   \* the paragraphs (text, style) of the document saved at output_path
    debug_info,   \* MultiStageFormatter.debug_info
    rule_calls,   \* PatternBasedFormatter.rule_calls
    ov,           \* the fields of the OvernightLLMFormatter instance
    run,          \* where process_document stands in the current session
    progress_file, \* what overnight_progress.pkl holds
    request,      \* the request to the Ollama server that is waiting for its answer
    result,       \* what format_document or process_document returned
    files,        \* the documents on disk: their content, or that they are absent
    backup_dir,   \* the files of the backup directory
    audit_file,   \* what the audit file holds
    manager,      \* the fields of the RollbackManager instance
    clock,        \* datetime.now(), in seconds
    call,         \* the last call of a RollbackManager method and how it ended
    interface,    \* the fields of the HumanValidationInterface instance
    http_response \* the last call of the interface and what it answered

cpVars == << doc, step, safety, zones, docinfo, fingerprint, altered, candidate, integrity >>

htmlVars == << docx, extracted_content, active_style_guide, html >>

fmtVars == << formatter, paths, input_doc, output_doc, debug_info, rule_calls,
             ov, run, progress_file, request, result >>

rbVars == << files, backup_dir, audit_file, manager, clock, call >>

hvVars == << interface, http_response >>

vars == << cpVars, htmlVars, fmtVars, rbVars, hvVars >>

\* the variables that the content preservation engine, the safe formatting
\* engine, the formatters, the rollback manager and the validation interface
\* leave alone
notCpVars == << htmlVars, fmtVars, rbVars, hvVars >>

notHtmlVars == << cpVars, fmtVars, rbVars, hvVars >>

notFmtVars == << cpVars, htmlVars, rbVars, hvVars >>

notRbVars == << cpVars, htmlVars, fmtVars, hvVars >>

notHvVars == << cpVars, htmlVars, fmtVars, rbVars >>

None == [ none |-> TRUE ]

\* no content preservation run, no rendering, no formatter run
NoContentPreservation ==
    /\ doc = None /\ step = None /\ safety = None /\ zones = None
    /\ docinfo = None /\ fingerprint = None /\ altered = None
    /\ candidate = None /\ integrity = None

NoHtml ==
    /\ docx = None /\ extracted_content = None
    /\ active_style_guide = None /\ html = None

NoFormatter ==
    /\ formatter = None /\ paths = None /\ input_doc = None /\ output_doc = None
    /\ debug_info = None /\ rule_calls = None /\ ov = None /\ run = None
    /\ progress_file = None /\ request = None /\ result = None

NoRollback ==
    /\ files = None /\ backup_dir = None /\ audit_file = None
    /\ manager = None /\ clock = None /\ call = None

NoValidation == interface = None /\ http_response = None

--------------------------------------------------------------------------
(* Characters and Python's str / re primitives                            *)

UpperSeq ==
    << "A","B","C","D","E","F","G","H","I","J","K","L","M",
       "N","O","P","Q","R","S","T","U","V","W","X","Y","Z" >>

LowerSeq ==
    << "a","b","c","d","e","f","g","h","i","j","k","l","m",
       "n","o","p","q","r","s","t","u","v","w","x","y","z" >>

UpperSet == { UpperSeq[i] : i \in DOMAIN UpperSeq }

LowerSet == { LowerSeq[i] : i \in DOMAIN LowerSeq }

DigitSet == { "0","1","2","3","4","5","6","7","8","9" }

LowerMap == [ c \in UpperSet |-> LowerSeq[CHOOSE i \in DOMAIN UpperSeq : UpperSeq[i] = c] ]

UpperMap == [ c \in LowerSet |-> UpperSeq[CHOOSE i \in DOMAIN LowerSeq : LowerSeq[i] = c] ]

\* str.lower() / str.upper() on one character
ToLower(c) == IF c \in UpperSet THEN LowerMap[c] ELSE c

ToUpper(c) == IF c \in LowerSet THEN UpperMap[c] ELSE c

IsDigit(c) == c \in DigitSet

IsAlpha(c) == c \in UpperSet \/ c \in LowerSet \/ c = "A^"

\* \w of the re module
IsWord(c) == IsAlpha(c) \/ IsDigit(c) \/ c = "_"

\* \s of the re module, and the characters str.strip() removes
IsSpace(c) == c \in { " ", "\n", "\t" }

str_lower(t) == [ i \in 1..Len(t) |-> ToLower(t[i]) ]

str_upper(t) == [ i \in 1..Len(t) |-> ToUpper(t[i]) ]

str_strip(t) ==
    LET keep == { i \in 1..Len(t) : ~IsSpace(t[i]) }
    IN  IF keep = {} THEN << >>
        ELSE LET lo == CHOOSE i \in keep : \A j \in keep : i <= j
                 hi == CHOOSE i \in keep : \A j \in keep : i >= j
             IN  SubSeq(t, lo, hi)

\* the "in" operator on strings
Contains(t, s) ==
    \E i \in 1..(Len(t) - Len(s) + 1) : SubSeq(t, i, i + Len(s) - 1) = s

RECURSIVE str_join(_, _)
\* sep.join(parts)
str_join(sep, parts) ==
    IF parts = << >> THEN << >>
    ELSE IF Len(parts) = 1 THEN parts[1]
    ELSE parts[1] \o sep \o str_join(sep, Tail(parts))

\* hashlib.sha256(text).hexdigest(): an injective digest
Sha256(t) == [ sha256 |-> t ]

\* a character of the pattern against a character of the text, under re.IGNORECASE or not
CharEq(c, d, ic) == IF ic THEN ToLower(c) = ToLower(d) ELSE c = d

\* \b before position i of t (i = Len(t) + 1: at the end)
WB(t, i) ==
    LET before == i > 1 /\ IsWord(t[i - 1])
        after  == i <= Len(t) /\ IsWord(t[i])
    IN  before # after

\* the literal w at position i of t
LitAt(t, i, w, ic) ==
    /\ i >= 1
    /\ i + Len(w) - 1 <= Len(t)
    /\ \A k \in 1..Len(w) : CharEq(t[i + k - 1], w[k], ic)

\* [A-Z] and [a-zA-Z] under the flag
IsUpperClass(c, ic) == c \in UpperSet \/ (ic /\ c \in LowerSet)

IsLetterClass(c) == c \in UpperSet \/ c \in LowerSet

RECURSIVE DigitsEnd(_, _)
\* last position of the greedy \d+ that starts at i (i - 1: no digit there)
DigitsEnd(t, i) ==
    IF i <= Len(t) /\ IsDigit(t[i]) THEN DigitsEnd(t, i + 1) ELSE i - 1

RECURSIVE SpacesEnd(_, _)
\* last position of the greedy \s* that starts at i
SpacesEnd(t, i) ==
    IF i <= Len(t) /\ IsSpace(t[i]) THEN SpacesEnd(t, i + 1) ELSE i - 1

RECURSIVE LettersEnd(_, _)
\* last position of the greedy [a-zA-Z]* that starts at i
LettersEnd(t, i) ==
    IF i <= Len(t) /\ IsLetterClass(t[i]) THEN LettersEnd(t, i + 1) ELSE i - 1

RECURSIVE UppersEnd(_, _, _)
\* last position of the greedy [A-Z]* that starts at i
UppersEnd(t, i, ic) ==
    IF i <= Len(t) /\ IsUpperClass(t[i], ic) THEN UppersEnd(t, i + 1, ic) ELSE i - 1

RECURSIVE GroupsEnd(_, _)
\* last position of the greedy (?:,\d{3})* that starts after position a
GroupsEnd(t, a) ==
    IF /\ a + 4 <= Len(t)
       /\ t[a + 1] = ","
       /\ IsDigit(t[a + 2]) /\ IsDigit(t[a + 3]) /\ IsDigit(t[a + 4])
    THEN GroupsEnd(t, a + 4)
    ELSE a

\* \b(w1|w2|...)\b found somewhere in t
WordAlt(t, words, ic) ==
    \E i \in 1..Len(t) :
        /\ WB(t, i)
        /\ \E w \in words : LitAt(t, i, w, ic) /\ WB(t, i + Len(w))

\* \b(h1|h2|...)\b.*\b(t1|t2|...)\b found somewhere in t ("." is not a newline)
HeadTail(t, heads, tails, ic) ==
    \E i \in 1..Len(t) :
        /\ WB(t, i)
        /\ \E w \in heads :
             /\ LitAt(t, i, w, ic)
             /\ WB(t, i + Len(w))
             /\ \E j \in (i + Len(w))..Len(t) :
                  /\ \A k \in (i + Len(w))..(j - 1) : t[k] # "\n"
                  /\ WB(t, j)
                  /\ \E v \in tails : LitAt(t, j, v, ic) /\ WB(t, j + Len(v))

--------------------------------------------------------------------------
(* Pattern library: ContentPreservationEngine.prohibited_patterns          *)

Proc1Words ==
    { <<"s","t","e","p">>,
      <<"p","r","o","c","e","d","u","r","e">>,
      <<"p","r","o","c","e","s","s">>,
      <<"m","e","t","h","o","d">>,
      <<"i","n","s","t","r","u","c","t","i","o","n">> }

Proc2Words ==
    { <<"s","h","a","l","l">>,
      <<"m","u","s","t">>,
      <<"r","e","q","u","i","r","e","d">>,
      <<"m","a","n","d","a","t","o","r","y">>,
      <<"p","r","o","h","i","b","i","t","e","d">> }

Proc3Words ==
    { <<"w","a","r","n","i","n","g">>,
      <<"c","a","u","t","i","o","n">>,
      <<"d","a","n","g","e","r">>,
      <<"n","o","t","i","c","e">>,
      <<"a","l","e","r","t">> }

Proc4Head ==
    { <<"f","o","l","l","o","w">>,
      <<"e","x","e","c","u","t","e">>,
      <<"p","e","r","f","o","r","m">>,
      <<"c","o","m","p","l","e","t","e">> }

Proc4Tail ==
    { <<"e","x","a","c","t","l","y">>,
      <<"p","r","e","c","i","s","e","l","y">> }

Tech5Words ==
    { <<"A","P","I">>,
      <<"S","D","K">>,
      <<"H","T","T","P">>,
      <<"R","E","S","T">>,
      <<"J","S","O","N">>,
      <<"X","M","L">> }

Tech6Words ==
    { <<"O","A","u","t","h">>,
      <<"S","S","L">>,
      <<"T","L","S">>,
      <<"H","T","T","P","S">> }

UnitWords ==
    { <<"P","S","I">>,
      <<"V">>,
      <<"A">>,
      <<"H","z">>,
      <<"A^","deg","C">>,
      <<"A^","deg","F">> }

Reg1Words ==
    { <<"F","D","A">>,
      <<"I","S","O">>,
      <<"O","S","H","A">>,
      <<"E","P","A">>,
      <<"c","o","m","p","l","i","a","n","c","e">>,
      <<"r","e","g","u","l","a","t","i","o","n">> }

Reg2Words ==
    { <<"s","t","a","n","d","a","r","d">>,
      <<"s","p","e","c","i","f","i","c","a","t","i","o","n">>,
      <<"r","e","q","u","i","r","e","m","e","n","t">>,
      <<"g","u","i","d","e","l","i","n","e">> }

Reg3Words ==
    { <<"a","p","p","r","o","v","e","d">>,
      <<"c","e","r","t","i","f","i","e","d">>,
      <<"v","a","l","i","d","a","t","e","d">>,
      <<"a","u","t","h","o","r","i","z","e","d">> }

Reg4Head ==
    { <<"C","E">>,
      <<"U","L">>,
      <<"F","C","C">>,
      <<"R","o","H","S">> }

Reg4Tail ==
    { <<"c","e","r","t","i","f","i","e","d">>,
      <<"c","o","m","p","l","i","a","n","t">> }

\* \b[A-Z]{2,}\b  (acronyms): a whole word of two or more letters of the class
Tech1(t, ic) ==
    \E i \in 1..Len(t) :
        LET e == UppersEnd(t, i, ic)
        IN  WB(t, i) /\ e - i + 1 >= 2 /\ WB(t, e + 1)

\* \b\w+[-_]\w+\b  (technical notation)
Tech2(t) ==
    \E k \in 2..(Len(t) - 1) :
        /\ t[k] \in { "-", "_" }
        /\ \E i \in 1..(k - 1) :
             /\ WB(t, i)
             /\ \A m \in i..(k - 1) : IsWord(t[m])
        /\ \E j \in (k + 1)..Len(t) :
             /\ \A m \in (k + 1)..j : IsWord(t[m])
             /\ WB(t, j + 1)

\* \b\d+\.\d+\.\d+\b  (version numbers)
Tech3(t) ==
    \E i \in 1..Len(t) :
        LET a == DigitsEnd(t, i)
            b == DigitsEnd(t, a + 2)
            c == DigitsEnd(t, b + 2)
        IN  /\ WB(t, i) /\ a >= i
            /\ a + 1 <= Len(t) /\ t[a + 1] = "." /\ b >= a + 2
            /\ b + 1 <= Len(t) /\ t[b + 1] = "." /\ c >= b + 2
            /\ WB(t, c + 1)

\* \b[a-zA-Z]+\d+[a-zA-Z]*\b  (product codes)
Tech4(t) ==
    \E i \in 1..Len(t) :
        LET a == LettersEnd(t, i)
            b == DigitsEnd(t, a + 1)
            c == LettersEnd(t, b + 1)
        IN  WB(t, i) /\ a >= i /\ b >= a + 1 /\ WB(t, c + 1)

(* The numerical_values patterns.  NumNEnd(t, i, ic) is the last position  *)
(* of the match the re module finds when it tries the pattern at position  *)
(* i of t, and 0 when the pattern does not match there.                    *)

\* \b\d+\.\d+\b  (decimal numbers)
Num1End(t, i, ic) ==
    LET a == DigitsEnd(t, i)
        b == DigitsEnd(t, a + 2)
    IN  IF /\ WB(t, i) /\ a >= i
           /\ a + 1 <= Len(t) /\ t[a + 1] = "." /\ b >= a + 2
           /\ WB(t, b + 1)
        THEN b ELSE 0

\* \$\d+(?:,\d{3})*(?:\.\d{2})?\b  (currency)
Num2End(t, i, ic) ==
    LET a == DigitsEnd(t, i + 1)
        g == GroupsEnd(t, a)
        cents == /\ g + 3 <= Len(t)
                 /\ t[g + 1] = "." /\ IsDigit(t[g + 2]) /\ IsDigit(t[g + 3])
    IN  IF t[i] # "$" \/ a < i + 1 THEN 0
        ELSE IF cents /\ WB(t, g + 4) THEN g + 3
        ELSE IF WB(t, g + 1) THEN g
        ELSE IF g > a THEN g - 4
        ELSE 0

\* \b\d+%\b  (percentages)
Num3End(t, i, ic) ==
    LET a == DigitsEnd(t, i)
    IN  IF /\ WB(t, i) /\ a >= i
           /\ a + 1 <= Len(t) /\ t[a + 1] = "%"
           /\ WB(t, a + 2)
        THEN a + 1 ELSE 0

\* \b\d{1,3}(?:,\d{3})*\b  (large numbers)
Num4End(t, i, ic) ==
    LET a == DigitsEnd(t, i)
        g == GroupsEnd(t, a)
    IN  IF ~WB(t, i) \/ a < i \/ a - i + 1 > 3 THEN 0
        ELSE IF WB(t, g + 1) THEN g
        ELSE IF g > a THEN g - 4
        ELSE 0

\* the unit that  \b\d+\s*(PSI|V|A|Hz|..[CF])\b  finds at position i: <<first, last>>
\* positions of group 1, << >> when the pattern does not match there
Num5Unit(t, i, ic) ==
    LET a == DigitsEnd(t, i)
        s == SpacesEnd(t, a + 1)
        us == { u \in UnitWords : LitAt(t, s + 1, u, ic) /\ WB(t, s + 1 + Len(u)) }
    IN  IF ~WB(t, i) \/ a < i \/ us = {} THEN << >>
        ELSE LET u == CHOOSE u \in us : TRUE IN << s + 1, s + Len(u) >>

\* \b\d+\s*(PSI|V|A|Hz|..[CF])\b  (units)
Num5End(t, i, ic) ==
    LET u == Num5Unit(t, i, ic) IN IF u = << >> THEN 0 ELSE u[2]

\* \b\d+[-/]\d+[-/]\d{2,4}\b  (dates)
Num6End(t, i, ic) ==
    LET a == DigitsEnd(t, i)
        b == DigitsEnd(t, a + 2)
        c == DigitsEnd(t, b + 2)
    IN  IF /\ WB(t, i) /\ a >= i
           /\ a + 1 <= Len(t) /\ t[a + 1] \in { "-", "/" } /\ b >= a + 2
           /\ b + 1 <= Len(t) /\ t[b + 1] \in { "-", "/" }
           /\ c - b - 1 >= 2 /\ c - b - 1 <= 4
           /\ WB(t, c + 1)
        THEN c ELSE 0

NumEnd(n, t, i, ic) ==
    CASE n = 1 -> Num1End(t, i, ic)
      [] n = 2 -> Num2End(t, i, ic)
      [] n = 3 -> Num3End(t, i, ic)
      [] n = 4 -> Num4End(t, i, ic)
      [] n = 5 -> Num5End(t, i, ic)
      [] n = 6 -> Num6End(t, i, ic)

\* the order of the categories in the prohibited_patterns dict
CategoryOrder ==
    << "procedural_language", "technical_terms", "numerical_values", "regulatory_compliance" >>

\* the number of patterns of each category
PatternCount ==
    [ procedural_language |-> 4, technical_terms |-> 6,
      numerical_values |-> 6, regulatory_compliance |-> 4 ]

\* re.search(prohibited_patterns[cat][n - 1], t, flags)
PatternSearch(cat, n, t, ic) ==
    CASE cat = "procedural_language" ->
           ( CASE n = 1 -> WordAlt(t, Proc1Words, ic)
               [] n = 2 -> WordAlt(t, Proc2Words, ic)
               [] n = 3 -> WordAlt(t, Proc3Words, ic)
               [] n = 4 -> HeadTail(t, Proc4Head, Proc4Tail, ic) )
      [] cat = "technical_terms" ->
           ( CASE n = 1 -> Tech1(t, ic)
               [] n = 2 -> Tech2(t)
               [] n = 3 -> Tech3(t)
               [] n = 4 -> Tech4(t)
               [] n = 5 -> WordAlt(t, Tech5Words, ic)
               [] n = 6 -> WordAlt(t, Tech6Words, ic) )
      [] cat = "numerical_values" ->
           \E i \in 1..Len(t) : NumEnd(n, t, i, ic) # 0
      [] cat = "regulatory_compliance" ->
           ( CASE n = 1 -> WordAlt(t, Reg1Words, ic)
               [] n = 2 -> WordAlt(t, Reg2Words, ic)
               [] n = 3 -> WordAlt(t, Reg3Words, ic)
               [] n = 4 -> HeadTail(t, Reg4Head, Reg4Tail, ic) )

--------------------------------------------------------------------------
(* Safety classifier and prohibited zones (content_preservation.py)        *)

SAFE_TO_MODIFY == "safe"

CONTENT_CRITICAL == "critical"

REQUIRES_REVIEW == "review"

RECURSIVE FirstPattern(_, _, _, _)
\* the inner loop "for pattern in patterns": the number of the first pattern of cat,
\* from n on, that re.search finds in t; 0 when none does
FirstPattern(cat, n, t, ic) ==
    IF n > PatternCount[cat] THEN 0
    ELSE IF PatternSearch(cat, n, t, ic) THEN n
    ELSE FirstPattern(cat, n + 1, t, ic)

RECURSIVE AssessFrom(_, _)
\* the loops of assess_paragraph_safety from category number c on
AssessFrom(c, text) ==
    IF c > Len(CategoryOrder)
    THEN IF \E i \in 1..Len(text) : IsDigit(text[i])
         THEN REQUIRES_REVIEW
         ELSE SAFE_TO_MODIFY
    ELSE IF FirstPattern(CategoryOrder[c], 1, text, TRUE) # 0
         THEN CONTENT_CRITICAL
         ELSE AssessFrom(c + 1, text)

\* the digit test made before the pattern loops
assess_digits_first(text) ==
    IF str_strip(text) = << >> THEN SAFE_TO_MODIFY
    ELSE IF \E i \in 1..Len(text) : IsDigit(text[i]) THEN REQUIRES_REVIEW
    ELSE AssessFrom(1, text)

assess_paragraph_safety(text) ==
    IF str_strip(text) = << >> THEN SAFE_TO_MODIFY ELSE AssessFrom(1, text)

\* text[:n]
Prefix(t, n) == SubSeq(t, 1, IF Len(t) < n THEN Len(t) ELSE n)

TextSampleLen == 100

RECURSIVE ZonesOfParagraph(_, _, _)
\* the loop "for zone_type, patterns in ...items()" for paragraph number i (from 0):
\* one zone for every category with a matching pattern; the break leaves the inner loop only
ZonesOfParagraph(c, i, text) ==
    IF c > Len(CategoryOrder) THEN << >>
    ELSE ( IF FirstPattern(CategoryOrder[c], 1, text, TRUE) # 0
           THEN << [ zone_type       |-> CategoryOrder[c],
                     start_paragraph |-> i,
                     end_paragraph   |-> i,
                     content_hash    |-> Sha256(text),
                     safety_level    |-> CONTENT_CRITICAL,
                     text_sample     |-> Prefix(text, TextSampleLen) ] >>
           ELSE << >> )
         \o ZonesOfParagraph(c + 1, i, text)

RECURSIVE ZonesFrom(_, _)
ZonesFrom(k, paragraphs) ==
    IF k > Len(paragraphs) THEN << >>
    ELSE ( IF str_strip(paragraphs[k]) = << >> THEN << >>
           ELSE ZonesOfParagraph(1, k - 1, paragraphs[k]) )
         \o ZonesFrom(k + 1, paragraphs)

identify_prohibited_zones(paragraphs) == ZonesFrom(1, paragraphs)

--------------------------------------------------------------------------
(* Content fingerprint and integrity validation (content_preservation.py)  *)

NonBlank(t) == str_strip(t) # << >>

\* '\n'.join(paragraph.text for paragraph in doc.paragraphs if paragraph.text.strip())
FullText(paragraphs) == str_join(<< "\n" >>, SelectSeq(paragraphs, NonBlank))

\* len(text.split())
WordCount(t) ==
    Cardinality({ i \in 1..Len(t) : ~IsSpace(t[i]) /\ (i = 1 \/ IsSpace(t[i - 1])) })

RECURSIVE FindAllFrom(_, _, _)
\* re.findall(numerical_values[n - 1], t) from position i on: the matches from left to
\* right, none overlapping another; the units pattern yields its group, the others
\* the whole match
FindAllFrom(n, t, i) ==
    IF i > Len(t) THEN << >>
    ELSE LET e == NumEnd(n, t, i, FALSE)
         IN  IF e = 0 THEN FindAllFrom(n, t, i + 1)
             ELSE << IF n = 5
                     THEN SubSeq(t, Num5Unit(t, i, FALSE)[1], Num5Unit(t, i, FALSE)[2])
                     ELSE SubSeq(t, i, e) >>
                  \o FindAllFrom(n, t, e + 1)

RECURSIVE ExtractNumerical(_, _)
\* numerical_values.extend(re.findall(pattern, full_text)) for the patterns from n on
ExtractNumerical(n, t) ==
    IF n > PatternCount["numerical_values"] THEN << >>
    ELSE FindAllFrom(n, t, 1) \o ExtractNumerical(n + 1, t)

RECURSIVE Dedupe(_)
\* list(dict.fromkeys(values))
Dedupe(values) ==
    IF values = << >> THEN << >>
    ELSE LET init == Dedupe(SubSeq(values, 1, Len(values) - 1))
             last == values[Len(values)]
         IN  IF \E k \in 1..Len(init) : init[k] = last THEN init ELSE Append(init, last)

\* the fingerprint taken over every paragraph, the blank ones too
fingerprint_all_paragraphs(paragraphs, info, now) ==
    LET full_text == str_join(<< "\n" >>, paragraphs)
    IN  [ full_text_hash   |-> Sha256(full_text),
          paragraph_hashes |-> [ k \in 1..Len(paragraphs) |-> Sha256(paragraphs[k]) ],
          structure_hash   |-> Sha256(<< Len(paragraphs), info.table_count, info.heading_count >>),
          word_count       |-> WordCount(full_text),
          character_count  |-> Len(full_text),
          numerical_values |-> Dedupe(ExtractNumerical(1, full_text)),
          timestamp        |-> now ]

\* a fingerprint whose structure digest takes the time of the call in
create_content_fingerprint_timed(paragraphs, info, now) ==
    LET full_text == FullText(paragraphs)
        kept == SelectSeq(paragraphs, NonBlank)
    IN  [ full_text_hash   |-> Sha256(full_text),
          paragraph_hashes |-> [ k \in 1..Len(kept) |-> Sha256(kept[k]) ],
          structure_hash   |-> Sha256(<< Len(kept), info.table_count, info.heading_count, now >>),
          word_count       |-> WordCount(full_text),
          character_count  |-> Len(full_text),
          numerical_values |-> Dedupe(ExtractNumerical(1, full_text)),
          timestamp        |-> now ]

create_content_fingerprint(paragraphs, info, now) ==
    LET full_text == FullText(paragraphs)
        kept == SelectSeq(paragraphs, NonBlank)
    IN  [ full_text_hash   |-> Sha256(full_text),
          paragraph_hashes |-> [ k \in 1..Len(kept) |-> Sha256(kept[k]) ],
          structure_hash   |-> Sha256(<< Len(kept), info.table_count, info.heading_count >>),
          word_count       |-> WordCount(full_text),
          character_count  |-> Len(full_text),
          numerical_values |-> Dedupe(ExtractNumerical(1, full_text)),
          timestamp        |-> now ]

validate_content_integrity(original_fingerprint, processed_content) ==
    LET missing == SelectSeq(original_fingerprint.numerical_values,
                             LAMBDA v : ~Contains(processed_content, v))
        checks ==
          [ content_hash_match    |-> Sha256(processed_content) = original_fingerprint.full_text_hash,
            word_count_match      |-> WordCount(processed_content) = original_fingerprint.word_count,
            character_count_match |-> Len(processed_content) = original_fingerprint.character_count,
            numerical_values_preserved |-> missing = << >>,
            missing_values        |-> missing ]
    IN  [ content_hash_match    |-> checks.content_hash_match,
          word_count_match      |-> checks.word_count_match,
          character_count_match |-> checks.character_count_match,
          numerical_values_preserved |-> checks.numerical_values_preserved,
          missing_values        |-> checks.missing_values,
          overall_valid         |-> /\ checks.content_hash_match
                                    /\ checks.word_count_match
                                    /\ checks.character_count_match
                                    /\ checks.numerical_values_preserved ]

RECURSIVE str_replace(_, _, _)
\* t.replace(old, new): every occurrence of old, from the left, none overlapping
str_replace(t, old, new) ==
    IF Len(t) < Len(old) \/ old = << >> THEN t
    ELSE IF SubSeq(t, 1, Len(old)) = old
         THEN new \o str_replace(SubSeq(t, Len(old) + 1, Len(t)), old, new)
         ELSE << t[1] >> \o str_replace(Tail(t), old, new)

--------------------------------------------------------------------------
(* Input documents                                                         *)

MaxTokens == 3

MaxWords == 2

RECURSIVE SortedSeq(_)
SortedSeq(S) ==
    IF S = {} THEN << >>
    ELSE LET m == CHOOSE x \in S : \A y \in S : x <= y
         IN  << m >> \o SortedSeq(S \ {m})

\* doc.paragraphs of a document whose words are ts, with a paragraph break after
\* every position of B: the text of a paragraph is its words separated by blanks
DocOf(ts, B) ==
    LET ends == SortedSeq(B \cup { Len(ts) })
    IN  [ k \in 1..Len(ends) |->
            str_join(<< " " >>,
                     SubSeq(ts, IF k = 1 THEN 1 ELSE ends[k - 1] + 1, ends[k])) ]

\* the documents of at most n words of the vocabulary V
Docs(V, n) ==
    UNION { { DocOf(ts, B) : ts \in [ 1..m -> V ], B \in SUBSET (1..(m - 1)) } :
            m \in 1..n }

\* words of the documents the safety classifier is run on
SafetyVocab ==
    { <<"S","t","e","p">>,
      <<"c","o","s","t">>,
      <<"a">>,
      <<"1","2","3","4">>,
      <<"1","5">>,
      <<"$","1","5",",","0","0","0",".","0","0">>,
      <<" ">> }

\* words of the documents that are fingerprinted
IntegrityVocab ==
    { <<"T","o","t","a","l">>,
      <<"1","5">>,
      <<"$","1","5",",","0","0","0",".","0","0">>,
      <<" ">> }

\* what a numerical value is replaced by in a modified text
Replacements ==
    { <<"1","5","0">>,
      <<"$","2","0",",","0","0","0",".","0","0">> }

\* table and heading counts of the fingerprinted documents
DocInfos ==
    { [ table_count |-> 0, heading_count |-> 0 ],
      [ table_count |-> 1, heading_count |-> 1 ] }

\* datetime.now() of a fingerprint
Times == { "t1", "t2" }

--------------------------------------------------------------------------
(* The safety report of a document: every paragraph is assessed, then the  *)
(* prohibited zones are identified                                         *)

SafetyInit ==
    /\ doc \in Docs(SafetyVocab, MaxTokens)
    /\ step = "loaded"
    /\ safety = << >>
    /\ zones = << >>
    /\ docinfo = None /\ fingerprint = None /\ altered = None
    /\ candidate = None /\ integrity = None
    /\ NoHtml
    /\ NoFormatter
    /\ NoRollback
    /\ NoValidation

AssessParagraphs ==
    /\ step = "loaded"
    /\ safety' = [ i \in 1..Len(doc) |-> assess_paragraph_safety(doc[i]) ]
    /\ step' = "assessed"
    /\ UNCHANGED << doc, zones, docinfo, fingerprint, altered, candidate, integrity, notCpVars >>

IdentifyZones ==
    /\ step = "assessed"
    /\ zones' = identify_prohibited_zones(doc)
    /\ step' = "zoned"
    /\ UNCHANGED << doc, safety, docinfo, fingerprint, altered, candidate, integrity, notCpVars >>

SafetyNext == AssessParagraphs \/ IdentifyZones

SafetySpec == SafetyInit /\ [][SafetyNext]_vars

--------------------------------------------------------------------------
(* A document is fingerprinted; later a text is validated against the      *)
(* fingerprint: the original text, or the text with a value replaced       *)

IntegrityInit ==
    /\ doc \in Docs(IntegrityVocab, MaxWords)
    /\ docinfo \in DocInfos
    /\ step = "loaded"
    /\ safety = << >> /\ zones = << >>
    /\ fingerprint = None /\ altered = None
    /\ candidate = None /\ integrity = None
    /\ NoHtml
    /\ NoFormatter
    /\ NoRollback
    /\ NoValidation

\* the document has been fingerprinted, once or twice
Fingerprinted == step \in { "fingerprinted", "fingerprinted again" }

\* create_content_fingerprint(document_path), on a loaded document or a second
\* time on the same unmodified document
CreateFingerprint ==
    /\ step \in { "loaded", "fingerprinted" }
    /\ \E now \in Times : fingerprint' = create_content_fingerprint(doc, docinfo, now)
    /\ step' = IF step = "loaded" THEN "fingerprinted" ELSE "fingerprinted again"
    /\ UNCHANGED << doc, safety, zones, docinfo, altered, candidate, integrity, notCpVars >>

\* original_text = '\n'.join(p.text for p in doc.paragraphs if p.text.strip())
OriginalText(paragraphs) == str_join(<< "\n" >>, SelectSeq(paragraphs, NonBlank))

ValidateOriginal ==
    /\ Fingerprinted
    /\ candidate' = OriginalText(doc)
    /\ altered' = None
    /\ integrity' = validate_content_integrity(fingerprint, candidate')
    /\ step' = "validated"
    /\ UNCHANGED << doc, safety, zones, docinfo, fingerprint, notCpVars >>

\* modified_text = original_text.replace(value, other)
ValidateModified ==
    /\ Fingerprinted
    /\ \E k \in 1..Len(fingerprint.numerical_values), new \in Replacements :
         LET old == fingerprint.numerical_values[k]
         IN  /\ new # old
             /\ altered' = old
             /\ candidate' = str_replace(OriginalText(doc), old, new)
    /\ integrity' = validate_content_integrity(fingerprint, candidate')
    /\ step' = "validated"
    /\ UNCHANGED << doc, safety, zones, docinfo, fingerprint, notCpVars >>

IntegrityNext == CreateFingerprint \/ ValidateOriginal \/ ValidateModified

IntegritySpec == IntegrityInit /\ [][IntegrityNext]_vars

--------------------------------------------------------------------------
(* Properties of the safety classifier                                     *)

Blank(t) == \A i \in 1..Len(t) : IsSpace(t[i])

HasDigit(t) == \E i \in 1..Len(t) : IsDigit(t[i])

CategoryMatches(cat, t) ==
    \E n \in 1..PatternCount[cat] : PatternSearch(cat, n, t, TRUE)

AnyCategoryMatches(t) ==
    \E c \in 1..Len(CategoryOrder) : CategoryMatches(CategoryOrder[c], t)

Assessed == step \in { "assessed", "zoned" }

NumericContent(t) ==
    \E n \in { 2, 3, 5 } : PatternSearch("numerical_values", n, t, TRUE)

\* C8: a paragraph whose only protected content is numeric, with no procedural,
\* technical or regulatory term, is classified REQUIRES_REVIEW
C8_NumericOnlyIsReview ==
    Assessed =>
      \A i \in 1..Len(doc) :
        ( /\ NumericContent(doc[i])
          /\ ~CategoryMatches("procedural_language", doc[i])
          /\ ~CategoryMatches("technical_terms", doc[i])
          /\ ~CategoryMatches("regulatory_compliance", doc[i]) )
        => safety[i] = REQUIRES_REVIEW

\* C9: at most one zone per paragraph; every zone is CONTENT_CRITICAL and spans
\* one paragraph
C9_OneZonePerParagraph ==
    step = "zoned" =>
      /\ \A a, b \in 1..Len(zones) :
           zones[a].start_paragraph = zones[b].start_paragraph => a = b
      /\ \A a \in 1..Len(zones) :
           /\ zones[a].safety_level = CONTENT_CRITICAL
           /\ zones[a].start_paragraph = zones[a].end_paragraph

--------------------------------------------------------------------------
(* Properties of the integrity validator                                   *)

InSeq(x, s) == \E k \in 1..Len(s) : s[k] = x

\* C5: the unmodified text of a document is valid against the document's fingerprint,
\* in every check
C5_OriginalTextValid ==
    (step = "validated" /\ altered = None) =>
      /\ integrity.overall_valid
      /\ integrity.content_hash_match
      /\ integrity.word_count_match
      /\ integrity.character_count_match
      /\ integrity.numerical_values_preserved
      /\ integrity.missing_values = << >>

\* the original text of a document with numerical values and a blank paragraph
\* has been validated
C5_Witness ==
    /\ step = "validated" /\ altered = None
    /\ fingerprint.numerical_values # << >>
    /\ Len(fingerprint.paragraph_hashes) < Len(doc)
    /\ integrity.overall_valid

\* C6: when a fingerprinted numerical value is altered in the candidate text, the
\* value is reported missing, numerical_values_preserved and overall_valid are False;
\* numerical_values_preserved is True only if missing_values is empty
C6_AlteredValueReported ==
    (step = "validated" /\ altered # None) =>
      /\ ~integrity.numerical_values_preserved
      /\ InSeq(altered, integrity.missing_values)
      /\ ~integrity.overall_valid
      /\ integrity.numerical_values_preserved => integrity.missing_values = << >>

--------------------------------------------------------------------------
(* The safe formatting engine: content extraction and HTML rendering       *)

MaxParas == 2

visual_only ==
    { "font-family", "font-size", "font-weight", "font-style",
      "color", "background-color", "text-align", "line-height",
      "margin", "padding", "border", "border-collapse",
      "width", "height", "display", "float", "clear" }

layout_only ==
    { "margin-top", "margin-bottom", "margin-left", "margin-right",
      "padding-top", "padding-bottom", "padding-left", "padding-right",
      "text-indent", "vertical-align", "page-break-before", "page-break-after" }

prohibited_properties ==
    { "content", "counter-increment", "counter-reset", "quotes", "text-transform" }

\* a style guide is the sequence of its rules, in the order of the dict
default_style_guide ==
 <<
    [ element_type |-> "h1",
      css_properties |->
         <<
              << "font-family", "Arial, sans-serif" >>,
              << "font-size", "18px" >>,
              << "font-weight", "bold" >>,
              << "color", "#000080" >>,
              << "margin-bottom", "12px" >>,
              << "margin-top", "16px" >> >> ],
    [ element_type |-> "h2",
      css_properties |->
         <<
              << "font-family", "Arial, sans-serif" >>,
              << "font-size", "14px" >>,
              << "font-weight", "bold" >>,
              << "color", "#333333" >>,
              << "margin-bottom", "8px" >>,
              << "margin-top", "12px" >> >> ],
    [ element_type |-> "h3",
      css_properties |->
         <<
              << "font-family", "Arial, sans-serif" >>,
              << "font-size", "13px" >>,
              << "font-weight", "bold" >>,
              << "color", "#666666" >>,
              << "margin-bottom", "6px" >>,
              << "margin-top", "10px" >> >> ],
    [ element_type |-> "p",
      css_properties |->
         <<
              << "font-family", "Arial, sans-serif" >>,
              << "font-size", "12px" >>,
              << "line-height", "1.15" >>,
              << "margin-bottom", "6px" >> >> ],
    [ element_type |-> "table",
      css_properties |->
         <<
              << "border-collapse", "collapse" >>,
              << "width", "100%" >>,
              << "font-family", "Arial, sans-serif" >>,
              << "font-size", "12px" >>,
              << "margin-bottom", "12px" >> >> ],
    [ element_type |-> "td",
      css_properties |->
         <<
              << "border", "1px solid #ddd" >>,
              << "padding", "6px" >>,
              << "text-align", "left" >> >> ],
    [ element_type |-> "th",
      css_properties |->
         <<
              << "border", "1px solid #ddd" >>,
              << "padding", "6px" >>,
              << "background-color", "#f2f2f2" >>,
              << "font-weight", "bold" >>,
              << "text-align", "left" >> >> ] >>

\* a style guide merged from learned rules: the default rules, the p rule
\* replaced by one that also carries content-affecting properties
learned_style_guide ==
    [ k \in DOMAIN default_style_guide |->
        IF default_style_guide[k].element_type = "p"
        THEN [ element_type |-> "p",
               css_properties |->
                  << << "font-family", "Georgia, serif" >>,
                     << "text-transform", "uppercase" >>,
                     << "content", "none" >>,
                     << "font-size", "12" >> >> ]
        ELSE default_style_guide[k] ]

\* a style guide that has headings only
heading_style_guide == SubSeq(default_style_guide, 1, 3)

StyleGuides == { default_style_guide, learned_style_guide, heading_style_guide }

InGuide(element_type, style_guide) ==
    \E k \in DOMAIN style_guide : style_guide[k].element_type = element_type

GuideRule(element_type, style_guide) ==
    style_guide[CHOOSE k \in DOMAIN style_guide :
                    style_guide[k].element_type = element_type]

\* the style sheet is the sequence of its blocks; a block has a selector and
\* declarations << property, value >>
BaseCss ==
 <<
    [ media |-> "", selector |-> "body",
      properties |-> << << "font-family", "Arial, sans-serif" >>, << "line-height", "1.6" >>, << "margin", "40px" >>, << "max-width", "800px" >>, << "color", "#333" >> >> ],
    [ media |-> "", selector |-> ".document-title",
      properties |-> << << "border-bottom", "2px solid #000080" >>, << "padding-bottom", "10px" >>, << "margin-bottom", "20px" >> >> ] >>

SafetyCss ==
 <<
    [ media |-> "", selector |-> ".preserved",
      properties |-> << << "background-color", "#fff9c4 !important" >>, << "border-left", "4px solid #f0ad4e !important" >>, << "padding", "8px !important" >>, << "margin", "4px 0 !important" >>, << "font-family", "inherit !important" >>, << "font-size", "inherit !important" >> >> ],
    [ media |-> "", selector |-> ".requires-review",
      properties |-> << << "background-color", "#e6f3ff !important" >>, << "border-left", "4px solid #007bff !important" >>, << "padding", "4px !important" >> >> ],
    [ media |-> "", selector |-> ".preserved::before",
      properties |-> << << "content", "\"PRESERVED: \"" >>, << "font-weight", "bold" >>, << "color", "#8a6d3b" >> >> ],
    [ media |-> "", selector |-> ".requires-review::before",
      properties |-> << << "content", "\"REVIEW: \"" >>, << "font-weight", "bold" >>, << "color", "#0056b3" >> >> ],
    [ media |-> "", selector |-> ".document-metadata",
      properties |-> << << "margin-top", "40px" >>, << "padding-top", "20px" >>, << "border-top", "1px solid #ddd" >>, << "color", "#666" >>, << "font-size", "11px" >> >> ],
    [ media |-> "print", selector |-> ".preserved, .requires-review",
      properties |-> << << "background-color", "white !important" >>, << "border-left", "2px solid #000 !important" >> >> ],
    [ media |-> "print", selector |-> ".preserved::before, .requires-review::before",
      properties |-> << << "content", "\"\"" >> >> ] >>

\* the values of the two content declarations are written without their
\* pictographs

_generate_safe_css(style_guide) ==
    LET allowed == visual_only \cup layout_only
        Safe(d) == d[1] \in allowed
        GuideBlock(k) ==
            [ media |-> "", selector |-> style_guide[k].element_type,
              properties |-> SelectSeq(style_guide[k].css_properties, Safe) ]
        NonEmpty(b) == b.properties # << >>
    IN  BaseCss
        \o SelectSeq([ k \in DOMAIN style_guide |-> GuideBlock(k) ], NonEmpty)
        \o SafetyCss

_map_css_to_format_key(css_property) ==
    CASE css_property = "font-family" -> "font_name"
      [] css_property = "font-size"   -> "font_size"
      [] css_property = "font-weight" -> "bold"
      [] css_property = "font-style"  -> "italic"
      [] css_property = "text-align"  -> "alignment"
      [] OTHER -> "None"

_apply_formatting_rule(paragraph, rule) ==
    LET Changes(d) ==
            LET format_key == _map_css_to_format_key(d[1])
            IN  format_key # "None"
                /\ format_key \in DOMAIN paragraph.formatting
                /\ paragraph.formatting[format_key] # d[2]
        Change(d) ==
            [ element_id   |-> << "paragraph", paragraph.index >>,
              change_type  |-> d[1],
              old_value    |-> paragraph.formatting[_map_css_to_format_key(d[1])],
              new_value    |-> d[2],
              css_property |-> d[1],
              rationale    |-> << "Applied", rule.element_type, "style rule" >> ]
        changed == SelectSeq(rule.css_properties, Changes)
    IN  [ k \in DOMAIN changed |-> Change(changed[k]) ]

escape_html_amp_last(text) ==
    IF text = << >> THEN << >>
    ELSE str_replace(
           str_replace(
             str_replace(
               str_replace(
                 str_replace(text, << "<" >>, <<"&","l","t",";">>),
                 << ">" >>, <<"&","g","t",";">>),
               << "\"" >>, <<"&","q","u","o","t",";">>),
             << "'" >>, <<"&","#","x","2","7",";">>),
           << "&" >>, <<"&","a","m","p",";">>)

_escape_html(text) ==
    IF text = << >> THEN << >>
    ELSE str_replace(
           str_replace(
             str_replace(
               str_replace(
                 str_replace(text, << "&" >>, <<"&","a","m","p",";">>),
                 << "<" >>, <<"&","l","t",";">>),
               << ">" >>, <<"&","g","t",";">>),
             << "\"" >>, <<"&","q","u","o","t",";">>),
           << "'" >>, <<"&","#","x","2","7",";">>)

Element(tag, class, data_safety, inner) ==
    [ kind |-> "element", tag |-> tag, class |-> class,
      data_safety |-> data_safety, inner |-> inner ]

Markup(s) == [ kind |-> "markup", text |-> s ]

_classify_paragraph_type(style) ==
    LET style_name == str_lower(style)
        Has(w) == Contains(style_name, w)
    IN  CASE Has(<<"h","e","a","d","i","n","g"," ","1">>) \/ Has(<<"t","i","t","l","e">>) -> "h1"
          [] Has(<<"h","e","a","d","i","n","g"," ","2">>) -> "h2"
          [] Has(<<"h","e","a","d","i","n","g"," ","3">>) -> "h3"
          [] Has(<<"h","e","a","d","i","n","g"," ","4">>) -> "h4"
          [] Has(<<"h","e","a","d","i","n","g"," ","5">>) -> "h5"
          [] Has(<<"h","e","a","d","i","n","g"," ","6">>) -> "h6"
          [] Has(<<"l","i","s","t">>) \/ Has(<<"b","u","l","l","e","t">>) -> "li"
          [] OTHER -> "p"

\* doc.paragraphs[i] has the index i - 1; blank paragraphs are skipped
extract_content_safely(document) ==
    LET n == Len(document.paragraphs)
        Kept(i) == NonBlank(document.paragraphs[i].text)
        kept == SelectSeq([ i \in 1..n |-> i ], Kept)
        Para(i) ==
            LET paragraph == document.paragraphs[i]
            IN  [ index        |-> i - 1,
                  text         |-> paragraph.text,
                  style_name   |-> paragraph.style_name,
                  element_type |-> _classify_paragraph_type(paragraph.style_name),
                  formatting   |-> paragraph.formatting,
                  safety_level |-> assess_paragraph_safety(paragraph.text) ]
        paragraphs == [ k \in DOMAIN kept |-> Para(kept[k]) ]
        IsHeading(p) == p.element_type \in { "h1", "h2", "h3", "h4", "h5", "h6" }
        headings == SelectSeq(paragraphs, IsHeading)
        Cell(text) == [ text |-> text, safety_level |-> assess_paragraph_safety(text) ]
        Table(t) ==
            [ index |-> t - 1,
              rows  |-> [ r \in DOMAIN document.tables[t] |->
                           [ c \in DOMAIN document.tables[t][r] |->
                               Cell(document.tables[t][r][c]) ] ] ]
    IN  [ paragraphs |-> paragraphs,
          tables     |-> [ t \in DOMAIN document.tables |-> Table(t) ],
          metadata   |-> [ title         |-> document.core_properties.title,
                           author        |-> document.core_properties.author,
                           document_path |-> document.document_path ],
          structure  |->
            [ heading_hierarchy |->
                [ k \in DOMAIN headings |->
                    [ level |-> headings[k].element_type,
                      text  |-> headings[k].text,
                      index |-> headings[k].index ] ],
              table_positions |-> [ t \in DOMAIN document.tables |-> t - 1 ] ] ]

\* the body of the paragraph loop: a paragraph that ignores its safety level
render_paragraph_styled(para, style_guide) ==
    [ part    |-> Element(para.element_type, "", "safe", _escape_html(para.text)),
      calls   |-> IF InGuide(para.element_type, style_guide)
                  THEN << [ index |-> para.index, rule |-> para.element_type ] >>
                  ELSE << >>,
      changes |-> IF InGuide(para.element_type, style_guide)
                  THEN _apply_formatting_rule(para, GuideRule(para.element_type, style_guide))
                  ELSE << >> ]

\* the body of the paragraph loop of generate_safe_html: the part appended to
\* html_parts, the calls of _apply_formatting_rule and the changes recorded
render_paragraph(para, style_guide) ==
    IF para.safety_level = CONTENT_CRITICAL
    THEN [ part    |-> Element("p", "preserved", "critical", _escape_html(para.text)),
           calls   |-> << >>,
           changes |-> << >> ]
    ELSE IF para.safety_level = REQUIRES_REVIEW
    THEN [ part    |-> Element(para.element_type, "requires-review", "review",
                               _escape_html(para.text)),
           calls   |-> << >>,
           changes |-> << >> ]
    ELSE [ part    |-> Element(para.element_type, "", "safe", _escape_html(para.text)),
           calls   |-> IF InGuide(para.element_type, style_guide)
                       THEN << [ index |-> para.index, rule |-> para.element_type ] >>
                       ELSE << >>,
           changes |-> IF InGuide(para.element_type, style_guide)
                       THEN _apply_formatting_rule(para,
                                GuideRule(para.element_type, style_guide))
                       ELSE << >> ]

RECURSIVE Flatten(_)
Flatten(ss) == IF ss = << >> THEN << >> ELSE Head(ss) \o Flatten(Tail(ss))

render_table(table) ==
    LET CellPart(row_idx, cell) ==
            LET safety_level == assess_paragraph_safety(cell.text)
                cell_tag == IF row_idx = 0 THEN "th" ELSE "td"
            IN  IF safety_level = CONTENT_CRITICAL
                THEN Element(cell_tag, "preserved", "critical", _escape_html(cell.text))
                ELSE IF safety_level = REQUIRES_REVIEW
                THEN Element(cell_tag, "requires-review", "review", _escape_html(cell.text))
                ELSE Element(cell_tag, "formatted", "safe", _escape_html(cell.text))
        Row(r) ==
            << Markup("<tr>") >>
            \o [ c \in DOMAIN table.rows[r] |-> CellPart(r - 1, table.rows[r][c]) ]
            \o << Markup("</tr>") >>
    IN  << Markup("<table>") >>
        \o Flatten([ r \in DOMAIN table.rows |-> Row(r) ])
        \o << Markup("</table>") >>

generate_safe_html(content, style_guide) ==
    LET title == content.metadata.title
        css == _generate_safe_css(style_guide)
        rendered == [ k \in DOMAIN content.paragraphs |->
                        render_paragraph(content.paragraphs[k], style_guide) ]
        html_parts ==
            << Markup("<!DOCTYPE html>"), Markup("<html lang=\"en\">"), Markup("<head>"),
               Markup("<meta charset=\"UTF-8\">"),
               Markup("<meta name=\"viewport\" content=\"width=device-width, initial-scale=1.0\">"),
               Element("title", "", "", _escape_html(title)),
               [ kind |-> "style", css |-> css ],
               Markup("</head><body>") >>
            \o (IF title # << >>
                THEN << Element("h1", "document-title", "", _escape_html(title)) >>
                ELSE << >>)
            \o [ k \in DOMAIN rendered |-> rendered[k].part ]
            \o Flatten([ t \in DOMAIN content.tables |-> render_table(content.tables[t]) ])
            \o << Markup("<div class=\"document-metadata\">"),
                  Element("small", "", "", <<"P","r","o","c","e","s","s","e","d",":"," ">> \o content.metadata.document_path) >>
            \o (IF content.metadata.author # << >>
                THEN << Element("small", "", "",
                                <<"A","u","t","h","o","r",":"," ">> \o _escape_html(content.metadata.author)) >>
                ELSE << >>)
            \o << Markup("</div>"), Markup("</body></html>") >>
    IN  [ html_parts   |-> html_parts,
          css          |-> css,
          changes_made |-> Flatten([ k \in DOMAIN rendered |-> rendered[k].changes ]),
          rule_calls   |-> Flatten([ k \in DOMAIN rendered |-> rendered[k].calls ]) ]

\* what an HTML parser reads back from the character references that
\* _escape_html writes
RECURSIVE Unescape(_)
Unescape(t) ==
    LET Ref(r) == Len(t) >= Len(r) /\ SubSeq(t, 1, Len(r)) = r
        After(r) == Unescape(SubSeq(t, Len(r) + 1, Len(t)))
    IN  IF t = << >> THEN << >>
        ELSE IF Ref(<<"&","a","m","p",";">>)  THEN << "&" >>  \o After(<<"&","a","m","p",";">>)
        ELSE IF Ref(<<"&","l","t",";">>)   THEN << "<" >>  \o After(<<"&","l","t",";">>)
        ELSE IF Ref(<<"&","g","t",";">>)   THEN << ">" >>  \o After(<<"&","g","t",";">>)
        ELSE IF Ref(<<"&","q","u","o","t",";">>) THEN << "\"" >> \o After(<<"&","q","u","o","t",";">>)
        ELSE IF Ref(<<"&","#","x","2","7",";">>) THEN << "'" >>  \o After(<<"&","#","x","2","7",";">>)
        ELSE << t[1] >> \o Unescape(Tail(t))

\* the text nodes of the parsed page, in document order (the line breaks
\* between the parts and the style sheet are left out)
TextNodes(html_parts) ==
    LET IsElement(p) == p.kind = "element"
        elements == SelectSeq(html_parts, IsElement)
    IN  [ k \in DOMAIN elements |-> Unescape(elements[k].inner) ]

\* the elements written by the paragraph loop
ParagraphElements(html_parts) ==
    LET IsPara(p) == p.kind = "element" /\ p.data_safety # ""
                     /\ p.tag \notin { "th", "td" }
    IN  SelectSeq(html_parts, IsPara)

DefaultFormatting ==
    [ font_name |-> "Default", font_size |-> "12", bold |-> "False",
      italic |-> "False", alignment |-> "left",
      space_before |-> "0", space_after |-> "0", line_spacing |-> "1.0" ]

\* style and first-run formatting of the paragraphs of the documents
ParaStyles ==
    { [ style_name |-> <<"H","e","a","d","i","n","g"," ","1">>,
        formatting |-> [ DefaultFormatting EXCEPT !.font_name = "Arial, sans-serif",
                                                  !.font_size = "18.0",
                                                  !.bold = "True" ] ],
      [ style_name |-> <<"N","o","r","m","a","l">>, formatting |-> DefaultFormatting ],
      [ style_name |-> <<"L","i","s","t"," ","B","u","l","l","e","t">>, formatting |-> DefaultFormatting ] }

\* paragraph texts of the documents that are rendered
HtmlTexts ==
    { <<"a","<","b"," ","&"," ","\"","c","\"",">","'","d","'">>,
      <<"S","t","e","p"," ","1"," ","&"," ","2">>,
      <<"x"," ",">"," ","1","2","3","4">>,
      <<" ">> }

HtmlParagraphs ==
    { [ text |-> t, style_name |-> s.style_name, formatting |-> s.formatting ] :
        t \in HtmlTexts, s \in ParaStyles }

\* the tables and core properties of the documents that are rendered
HtmlExtras ==
    { [ tables |-> << >>,
        core_properties |-> [ title |-> << >>, author |-> << >> ] ],
      [ tables |-> << << << <<"Q","t","y">> >>, << <<"x","<","1","2","3","4">> >> >> >>,
        core_properties |-> [ title |-> <<"Q","&","A">>, author |-> <<"A","l">> ] ] }

Docxs ==
    { [ paragraphs |-> ps, tables |-> x.tables,
        core_properties |-> x.core_properties, document_path |-> <<"i","n",".","d","o","c","x">> ] :
        ps \in UNION { [ 1..n -> HtmlParagraphs ] : n \in 0..MaxParas },
        x \in HtmlExtras }

HtmlInit ==
    /\ docx \in Docxs
    /\ active_style_guide \in StyleGuides
    /\ extracted_content = None
    /\ html = None
    /\ NoContentPreservation
    /\ NoFormatter
    /\ NoRollback
    /\ NoValidation

ExtractContent ==
    /\ extracted_content = None
    /\ extracted_content' = extract_content_safely(docx)
    /\ UNCHANGED << docx, active_style_guide, html, notHtmlVars >>

GenerateHtml ==
    /\ extracted_content # None
    /\ html = None
    /\ html' = generate_safe_html(extracted_content, active_style_guide)
    /\ UNCHANGED << docx, active_style_guide, extracted_content, notHtmlVars >>

HtmlNext == ExtractContent \/ GenerateHtml

HtmlSpec == HtmlInit /\ [][HtmlNext]_vars

--------------------------------------------------------------------------
(* Properties of the safe formatting engine                                *)

Rendered == html # None

RenderedTexts == [ k \in DOMAIN extracted_content.paragraphs |->
                     extracted_content.paragraphs[k].text ]

RECURSIVE IsSubsequence(_, _)
IsSubsequence(s, t) ==
    IF s = << >> THEN TRUE
    ELSE IF t = << >> THEN FALSE
    ELSE IF Head(s) = Head(t) THEN IsSubsequence(Tail(s), Tail(t))
    ELSE IsSubsequence(s, Tail(t))

C4_TextIdentical ==
    Rendered =>
        str_join(<< >>, TextNodes(html.html_parts)) = str_join(<< >>, RenderedTexts)

\* C4 (amended): the elements written for the paragraphs read back as the
\* input paragraph texts, one for one and in the original order, so every
\* paragraph text is among the text nodes of the page in its original
\* relative order; the page also carries the title, the table cells and the
\* metadata footer
C4_ParagraphTextsInOrder ==
    Rendered =>
        LET elems == ParagraphElements(html.html_parts)
        IN  /\ [ k \in DOMAIN elems |-> Unescape(elems[k].inner) ] = RenderedTexts
            /\ IsSubsequence(RenderedTexts, TextNodes(html.html_parts))

C4_Witness ==
    /\ Rendered
    /\ Len(RenderedTexts) = 2
    /\ RenderedTexts[1] # RenderedTexts[2]
    /\ \E k \in DOMAIN RenderedTexts :
          /\ Contains(RenderedTexts[k], << "<" >>)
          /\ Contains(RenderedTexts[k], << "&" >>)
          /\ Contains(RenderedTexts[k], << "'" >>)
    /\ Len(docx.paragraphs) > Len(RenderedTexts) \/ docx.tables # << >>

\* C7: every property of every declaration of the generated style sheet is on
\* the visual-only or layout-only list, and none is a prohibited property
C7_EmittedKeysAllowed ==
    Rendered =>
        \A b \in DOMAIN html.css :
            \A d \in DOMAIN html.css[b].properties :
                /\ html.css[b].properties[d][1] \in visual_only \cup layout_only
                /\ html.css[b].properties[d][1] \notin prohibited_properties

--------------------------------------------------------------------------
(* The filter stages and the rule classifiers of the formatters            *)
(*                                                                         *)
(* The characters beyond ASCII that the sources name are written bullet,   *)
(* wbullet, tri, circ (the list markers of multi_stage_formatter.py), a^,  *)
(* euro, cent, emdash, brokenbar, endash, ordm, lsaquo (the character      *)
(* class of pattern_based_formatter.py) and lowquote, A:, o', pilcrow, n~, *)
(* integral (the prefixes of overnight_llm_formatter.py); their case is not modelled.   *)

StartsWith(t, p) == Len(t) >= Len(p) /\ SubSeq(t, 1, Len(p)) = p

EndsWith(t, p) == Len(t) >= Len(p) /\ SubSeq(t, Len(t) - Len(p) + 1, Len(t)) = p

\* str.count of a one-character string
str_count(t, c) == Cardinality({ i \in 1..Len(t) : t[i] = c })

str_isupper(t) ==
    /\ \E i \in 1..Len(t) : t[i] \in UpperSet
    /\ \A i \in 1..Len(t) : t[i] \notin LowerSet

str_istitle(t) ==
    /\ \E i \in 1..Len(t) : t[i] \in UpperSet
    /\ \A i \in 1..Len(t) :
          /\ t[i] \in UpperSet => (i = 1 \/ ~IsAlpha(t[i - 1]))
          /\ t[i] \in LowerSet => (i > 1 /\ IsAlpha(t[i - 1]))

str_title(t) ==
    [ i \in 1..Len(t) |->
        IF i = 1 \/ ~IsAlpha(t[i - 1]) THEN ToUpper(t[i]) ELSE ToLower(t[i]) ]

\* re.search(r'\.{5,}', text)
DottedLine(t) == Contains(t, <<".",".",".",".",".">>)

\* re.match(r'^[A-Z]+-\d+$', text) on a stripped text
PageReference(t) ==
    \E d \in 2..(Len(t) - 1) :
        /\ t[d] = "-"
        /\ \A i \in 1..(d - 1) : t[i] \in UpperSet
        /\ \A i \in (d + 1)..Len(t) : IsDigit(t[i])

RECURSIVE DotsEnd(_, _)
\* last position of the greedy \.* that starts at i
DotsEnd(t, i) ==
    IF i <= Len(t) /\ t[i] = "." THEN DotsEnd(t, i + 1) ELSE i - 1

\* re.search(r'^\d+\.\d+\s+.*\.{3,}\s*\d+', text)
TocEntry(t) ==
    LET a == DigitsEnd(t, 1)
        b == DigitsEnd(t, a + 2)
        ws == SpacesEnd(t, b + 1)
    IN  /\ a >= 1
        /\ a + 1 <= Len(t) /\ t[a + 1] = "."
        /\ b >= a + 2
        /\ \E w \in (b + 1)..ws, j \in (b + 2)..(Len(t) - 3) :
              /\ w < j
              /\ \A i \in (w + 1)..(j - 1) : t[i] # "\n"
              /\ t[j] = "." /\ t[j + 1] = "." /\ t[j + 2] = "."
              /\ LET k == SpacesEnd(t, DotsEnd(t, j + 3) + 1) + 1
                 IN  k <= Len(t) /\ IsDigit(t[k])

\* re.search(r'page \d+', text_lower)
PageNumber(t) ==
    \E i \in 1..(Len(t) - 5) : SubSeq(t, i, i + 4) = <<"p","a","g","e"," ">> /\ IsDigit(t[i + 5])

\* the six characters \d{2}-\d{2}-\d{2} at position k
DateAt(t, k) ==
    /\ k + 7 <= Len(t)
    /\ IsDigit(t[k]) /\ IsDigit(t[k + 1]) /\ t[k + 2] = "-"
    /\ IsDigit(t[k + 3]) /\ IsDigit(t[k + 4]) /\ t[k + 5] = "-"
    /\ IsDigit(t[k + 6]) /\ IsDigit(t[k + 7])

\* re.search(r'date:?\s*\d{2}-\d{2}-\d{2}', text_lower)
DateStamp(t) ==
    \E i \in 1..(Len(t) - 3) :
        /\ SubSeq(t, i, i + 3) = <<"d","a","t","e">>
        /\ \/ DateAt(t, SpacesEnd(t, i + 4) + 1)
           \/ /\ i + 4 <= Len(t) /\ t[i + 4] = ":"
              /\ DateAt(t, SpacesEnd(t, i + 5) + 1)

\* stage 1 with its substring rule for the table of contents before its exact rule
stage1_reason_variant_first(para_text) ==
    LET text == str_strip(para_text)
        text_lower == str_lower(text)
    IN  IF Len(text) < 3 THEN "too short"
        ELSE IF Contains(text_lower, <<"t","a","b","l","e"," ","o","f"," ","c","o","n","t","e","n","t","s">>) THEN "table of contents variant"
        ELSE IF text = <<"T","A","B","L","E"," ","O","F"," ","C","O","N","T","E","N","T","S">> THEN "table of contents"
        ELSE IF text = <<"M","A","S","T","E","R"," ","T","A","B","L","E"," ","O","F"," ","C","O","N","T","E","N","T","S">> THEN "master table of contents"
        ELSE IF Contains(text_lower, <<"m","a","s","t","e","r"," ","t","a","b","l","e">>) THEN "master table variant"
        ELSE IF Contains(text_lower, <<"r","e","c","o","r","d"," ","o","f"," ","r","e","v","i","s","i","o","n","s">>) THEN "record of revisions"
        ELSE IF Contains(text_lower, <<"r","e","v","i","s","i","o","n"," ","h","i","g","h","l","i","g","h","t","s">>) THEN "revision highlights"
        ELSE IF Contains(text_lower, <<"l","i","s","t"," ","o","f"," ","e","f","f","e","c","t","i","v","e"," ","s","e","c","t","i","o","n","s">>)
             THEN "list of effective sections"
        ELSE IF Contains(text_lower, <<"l","i","s","t"," ","o","f"," ","e","f","f","e","c","t","i","v","e"," ","p","a","g","e","s">>)
             THEN "list of effective pages"
        ELSE IF DottedLine(text) THEN "dotted lines (TOC)"
        ELSE IF PageReference(text) THEN "page reference"
        ELSE IF TocEntry(text) THEN "TOC entry with page numbers"
        ELSE ""

\* the reason stage 1 filters a paragraph for, "" when it keeps it
stage1_reason(para_text) ==
    LET text == str_strip(para_text)
        text_lower == str_lower(text)
    IN  IF Len(text) < 3 THEN "too short"
        ELSE IF text = <<"T","A","B","L","E"," ","O","F"," ","C","O","N","T","E","N","T","S">> THEN "table of contents"
        ELSE IF Contains(text_lower, <<"t","a","b","l","e"," ","o","f"," ","c","o","n","t","e","n","t","s">>) THEN "table of contents variant"
        ELSE IF text = <<"M","A","S","T","E","R"," ","T","A","B","L","E"," ","O","F"," ","C","O","N","T","E","N","T","S">> THEN "master table of contents"
        ELSE IF Contains(text_lower, <<"m","a","s","t","e","r"," ","t","a","b","l","e">>) THEN "master table variant"
        ELSE IF Contains(text_lower, <<"r","e","c","o","r","d"," ","o","f"," ","r","e","v","i","s","i","o","n","s">>) THEN "record of revisions"
        ELSE IF Contains(text_lower, <<"r","e","v","i","s","i","o","n"," ","h","i","g","h","l","i","g","h","t","s">>) THEN "revision highlights"
        ELSE IF Contains(text_lower, <<"l","i","s","t"," ","o","f"," ","e","f","f","e","c","t","i","v","e"," ","s","e","c","t","i","o","n","s">>)
             THEN "list of effective sections"
        ELSE IF Contains(text_lower, <<"l","i","s","t"," ","o","f"," ","e","f","f","e","c","t","i","v","e"," ","p","a","g","e","s">>)
             THEN "list of effective pages"
        ELSE IF DottedLine(text) THEN "dotted lines (TOC)"
        ELSE IF PageReference(text) THEN "page reference"
        ELSE IF TocEntry(text) THEN "TOC entry with page numbers"
        ELSE ""

Stage1Kept(para_text) == stage1_reason(para_text) = ""

stage1_navigation_filter(paragraphs) == SelectSeq(paragraphs, Stage1Kept)

\* the rules of stage 2 that follow the two intentionally-left-blank rules
stage2_later_rules(text, text_lower) ==
    IF Contains(text_lower, <<"t","h","i","s"," ","p","a","g","e"," ","i","n","t","e","n","t","i","o","n","a","l","l","y"," ","l","e","f","t"," ","b","l","a","n","k">>)
         THEN "this page intentionally left blank"
    ELSE IF PageNumber(text_lower) THEN "page number"
    ELSE IF Contains(text_lower, <<"r","e","v","i","s","i","o","n",":">>) THEN "revision info"
    ELSE IF Contains(text_lower, <<"r","e","p","o","r","t"," ","#">>) THEN "report number"
    ELSE IF Contains(text_lower, <<"o","a","e",".">>) THEN "oae reference"
    ELSE IF Contains(text_lower, <<"c","o","m","p","a","n","y"," ","n","a","m","e">>) /\ Len(text) < 50
         THEN "company header"
    ELSE IF text = <<"F","L","I","G","H","T"," ","A","T","T","E","N","D","A","N","T"," ","P","O","L","I","C","I","E","S"," ","&"," ","P","R","O","C","E","D","U","R","E","S"," ","H","A","N","D","B","O","O","K">>
         THEN "document title"
    ELSE IF Contains(text_lower, <<"p","o","l","i","c","i","e","s"," ","&"," ","p","r","o","c","e","d","u","r","e","s"," ","h","a","n","d","b","o","o","k">>) /\ Len(text) < 100
         THEN "handbook title"
    ELSE IF Contains(text_lower, <<"f","l","i","g","h","t"," ","c","r","e","w"," ","t","r","a","i","n","i","n","g"," ","m","a","n","u","a","l">>) /\ Len(text) < 100
         THEN "manual title"
    ELSE IF DateStamp(text_lower) THEN "date stamp"
    ELSE ""

\* stage 2 without its two intentionally-left-blank rules
stage2_reason_later_rules_only(para_text) ==
    stage2_later_rules(str_strip(para_text), str_lower(str_strip(para_text)))

\* the reason stage 2 filters a paragraph for, "" when it keeps it
stage2_reason(para_text) ==
    LET text == str_strip(para_text)
        text_lower == str_lower(text)
    IN  IF text = <<"I","N","T","E","N","T","I","O","N","A","L","L","Y"," ","L","E","F","T"," ","B","L","A","N","K">> THEN "intentionally left blank (exact)"
        ELSE IF Contains(text_lower, <<"i","n","t","e","n","t","i","o","n","a","l","l","y"," ","l","e","f","t"," ","b","l","a","n","k">>)
             THEN "intentionally left blank (variant)"
        ELSE stage2_later_rules(text, text_lower)

Stage2Kept(para_text) == stage2_reason(para_text) = ""

stage2_metadata_filter(paragraphs) == SelectSeq(paragraphs, Stage2Kept)

Heading1 == <<"H","e","a","d","i","n","g"," ","1">>

Heading2 == <<"H","e","a","d","i","n","g"," ","2">>

Heading3 == <<"H","e","a","d","i","n","g"," ","3">>

Heading4 == <<"H","e","a","d","i","n","g"," ","4">>

Heading5 == <<"H","e","a","d","i","n","g"," ","5">>

BodyText == <<"B","o","d","y"," ","T","e","x","t">>

ListParagraph == <<"L","i","s","t"," ","P","a","r","a","g","r","a","p","h">>

Normal == <<"N","o","r","m","a","l">>

\* the list patterns r'^[...]\s+', r'^\d+\.\s+', r'^[a-z]\)\s+', r'^[A-Z]\)\s+',
\* r'^\([a-z]\)\s+', r'^\([A-Z]\)\s+' with the given character class of markers
ListPattern(t, markers) ==
    LET SpaceAt(i) == i <= Len(t) /\ IsSpace(t[i])
        d == DigitsEnd(t, 1)
    IN  \/ Len(t) >= 1 /\ t[1] \in markers /\ SpaceAt(2)
        \/ d >= 1 /\ d + 1 <= Len(t) /\ t[d + 1] = "." /\ SpaceAt(d + 2)
        \/ Len(t) >= 2 /\ t[1] \in LowerSet /\ t[2] = ")" /\ SpaceAt(3)
        \/ Len(t) >= 2 /\ t[1] \in UpperSet /\ t[2] = ")" /\ SpaceAt(3)
        \/ Len(t) >= 3 /\ t[1] = "(" /\ t[2] \in LowerSet /\ t[3] = ")" /\ SpaceAt(4)
        \/ Len(t) >= 3 /\ t[1] = "(" /\ t[2] \in UpperSet /\ t[3] = ")" /\ SpaceAt(4)

MultiStageMarkers == { "bullet", "-", "*", "wbullet", "tri", "circ" }

PatternBasedMarkers ==
    { "a^", "euro", "cent", "-", "*", "emdash", "brokenbar", "endash", "ordm", "lsaquo" }

imperative_starts ==
    { <<"r","e","a","d",",">>, <<"u","n","d","e","r","s","t","a","n","d">>, <<"c","o","m","p","l","y">>, <<"r","e","p","o","r","t">>, <<"m","a","i","n","t","a","i","n">>, <<"a","v","o","i","d">>,
      <<"u","s","e">>, <<"r","e","s","p","e","c","t">>, <<"p","r","o","m","o","t","e">>, <<"c","o","o","p","e","r","a","t","e">>, <<"e","n","s","u","r","e">>, <<"f","o","l","l","o","w">>,
      <<"w","e","a","r">>, <<"k","e","e","p">>, <<"r","e","p","l","a","c","e">>, <<"c","h","e","c","k">>, <<"v","e","r","i","f","y">>, <<"s","u","b","m","i","t">> }

modal_phrases ==
    { <<"m","u","s","t"," ">>, <<"s","h","a","l","l"," ">>, <<"w","i","l","l"," ">>, <<"s","h","o","u","l","d"," ">>,
      <<"a","r","e"," ","r","e","q","u","i","r","e","d"," ","t","o">>, <<"a","r","e"," ","r","e","s","p","o","n","s","i","b","l","e"," ","f","o","r">> }

\* the tree with the heading rules tried before the list rules
_classify_paragraph_headings_first(text) ==
    LET text_clean == str_strip(text)
        text_lower == str_lower(text_clean)
    IN  IF Len(text_clean) < 100 /\ ~EndsWith(text_clean, << "." >>)
           /\ str_isupper(text_clean)
        THEN IF Len(text_clean) < 30 THEN Heading2 ELSE Heading1
        ELSE IF Len(text_clean) < 100 /\ ~EndsWith(text_clean, << "." >>)
                /\ str_istitle(text_clean)
             THEN Heading3
        ELSE IF ListPattern(text_clean, MultiStageMarkers) THEN ListParagraph
        ELSE IF \E verb \in imperative_starts : StartsWith(text_lower, verb)
             THEN ListParagraph
        ELSE IF \E phrase \in modal_phrases : Contains(text_lower, phrase)
             THEN ListParagraph
        ELSE IF StartsWith(text_clean, <<"N","O","T","E",":">>) THEN Normal
        ELSE BodyText

_classify_paragraph(text) ==
    LET text_clean == str_strip(text)
        text_lower == str_lower(text_clean)
    IN  IF ListPattern(text_clean, MultiStageMarkers) THEN ListParagraph
        ELSE IF \E verb \in imperative_starts : StartsWith(text_lower, verb)
             THEN ListParagraph
        ELSE IF \E phrase \in modal_phrases : Contains(text_lower, phrase)
             THEN ListParagraph
        ELSE IF Len(text_clean) < 100 /\ ~EndsWith(text_clean, << "." >>)
                /\ str_isupper(text_clean)
             THEN IF Len(text_clean) < 30 THEN Heading2 ELSE Heading1
        ELSE IF Len(text_clean) < 100 /\ ~EndsWith(text_clean, << "." >>)
                /\ str_istitle(text_clean)
             THEN Heading3
        ELSE IF StartsWith(text_clean, <<"N","O","T","E",":">>) THEN Normal
        ELSE BodyText

\* stage 3 emitting its paragraphs last first
stage3_classify_content_reversed(paragraphs) ==
    [ k \in DOMAIN paragraphs |->
        [ text |-> str_strip(paragraphs[Len(paragraphs) + 1 - k]),
          style |-> _classify_paragraph(str_strip(paragraphs[Len(paragraphs) + 1 - k])),
          original_para |-> paragraphs[Len(paragraphs) + 1 - k] ] ]

stage3_classify_content(paragraphs) ==
    [ k \in DOMAIN paragraphs |->
        [ text |-> str_strip(paragraphs[k]),
          style |-> _classify_paragraph(str_strip(paragraphs[k])),
          original_para |-> paragraphs[k] ] ]

toc_patterns ==
    { <<"t","a","b","l","e"," ","o","f"," ","c","o","n","t","e","n","t","s">>, <<"m","a","s","t","e","r"," ","t","a","b","l","e"," ","o","f"," ","c","o","n","t","e","n","t","s">>, <<"r","e","c","o","r","d"," ","o","f"," ","r","e","v","i","s","i","o","n","s">>,
      <<"r","e","v","i","s","i","o","n"," ","h","i","g","h","l","i","g","h","t","s">>, <<"l","i","s","t"," ","o","f"," ","e","f","f","e","c","t","i","v","e"," ","s","e","c","t","i","o","n","s">>,
      <<"l","i","s","t"," ","o","f"," ","e","f","f","e","c","t","i","v","e"," ","p","a","g","e","s">>, <<"e","f","f","e","c","t","i","v","e"," ","s","e","c","t","i","o","n","s">>, <<"e","f","f","e","c","t","i","v","e"," ","p","a","g","e","s">> }

\* re.search(r'page \d+|revision:|report #|oae\.', text_lower)
HeaderFooter(t) ==
    \/ PageNumber(t)
    \/ Contains(t, <<"r","e","v","i","s","i","o","n",":">>)
    \/ Contains(t, <<"r","e","p","o","r","t"," ","#">>)
    \/ Contains(t, <<"o","a","e",".">>)

enhanced_filter(text) ==
    LET text_lower == str_strip(str_lower(text))
    IN  IF Len(text_lower) < 3 THEN FALSE
        ELSE IF Contains(text_lower, <<"i","n","t","e","n","t","i","o","n","a","l","l","y"," ","l","e","f","t"," ","b","l","a","n","k">>) THEN FALSE
        ELSE IF \E pattern \in toc_patterns : Contains(text_lower, pattern) THEN FALSE
        ELSE IF DottedLine(text) THEN FALSE
        ELSE IF PageReference(str_strip(text)) THEN FALSE
        ELSE IF HeaderFooter(text_lower) THEN FALSE
        ELSE TRUE

quick_rule_patterns ==
    { <<"t","a","b","l","e"," ","o","f"," ","c","o","n","t","e","n","t","s">>, <<"p","a","g","e"," ">>, <<"r","e","v","i","s","i","o","n",":">>, <<"r","e","p","o","r","t"," ","#">>,
      <<"c","o","m","p","a","n","y"," ","n","a","m","e">>, <<"o","a","e",".">>, <<"m","a","s","t","e","r"," ","t","a","b","l","e">> }

quick_rule_filter(text) ==
    LET text_lower == str_strip(str_lower(text))
    IN  IF Len(text_lower) < 3 THEN FALSE
        ELSE IF Contains(text_lower, <<"i","n","t","e","n","t","i","o","n","a","l","l","y"," ","l","e","f","t"," ","b","l","a","n","k">>) THEN FALSE
        ELSE IF \E pattern \in quick_rule_patterns : Contains(text_lower, pattern)
             THEN FALSE
        ELSE IF str_count(text_lower, ".") > 5 THEN FALSE
        ELSE TRUE

heading_1_matches ==
    { <<"P","R","E","F","A","C","E">>,
      <<"E","M","P","L","O","Y","M","E","N","T"," ","P","O","L","I","C","I","E","S">>,
      <<"H","I","R","I","N","G"," ","A","N","D"," ","Q","U","A","L","I","F","I","C","A","T","I","O","N","S">>,
      <<"P","E","R","F","O","R","M","A","N","C","E"," ","C","O","R","R","E","C","T","I","O","N">>,
      <<"C","O","M","P","E","N","S","A","T","I","O","N"," ","A","N","D"," ","E","M","P","L","O","Y","E","E"," ","B","E","N","E","F","I","T","S">>,
      <<"S","C","H","E","D","U","L","I","N","G">>,
      <<"T","R","A","V","E","L">>,
      <<"U","N","I","F","O","R","M"," ","G","U","I","D","E","L","I","N","E","S">>,
      <<"E","M","P","L","O","Y","E","E"," ","B","E","N","E","F","I","T","S">>,
      <<"A","p","p","e","n","d","i","x"," ","A"," ","P","H","O","N","E","/","F","A","X"," ","N","U","M","B","E","R","S">>,
      <<"A","p","p","e","n","d","i","x"," ","B"," ","O","A","I"," ","I","S","S","U","E","D"," ","M","A","T","E","R","I","A","L"," ","C","O","S","T","S">>,
      <<"A","p","p","e","n","d","i","x"," ","C"," ","P","A","S","S"," ","T","R","A","V","E","L"," ","P","O","L","I","C","Y">>,
      <<"A","p","p","e","n","d","i","x"," ","D"," ","J","U","M","P","S","E","A","T"," ","A","G","R","E","E","M","E","N","T","S">>,
      <<"A","p","p","e","n","d","i","x"," ","E"," ","C","R","E","W","M","E","M","B","E","R"," ","L","O","S","T"," ","I","D","E","N","T","I","F","I","C","A","T","I","O","N"," ","M","E","D","I","A"," ","P","R","O","C","E","D","U","R","E">> }

heading_2_matches ==
    { <<"P","R","E","S","I","D","E","N","T","'","S"," ","W","E","L","C","O","M","E"," ","(","R","C","-","T","H","P","P","H",")">>,
      <<"M","I","S","S","I","O","N"," ","S","T","A","T","E","M","E","N","T"," ","(","R","C","-","T","H","P","P","H",")">>,
      <<"P","U","R","P","O","S","E"," ","O","F"," ","T","H","E"," ","H","A","N","D","B","O","O","K">>,
      <<"C","O","M","P","A","N","Y"," ","H","I","S","T","O","R","Y">>,
      <<"S","A","F","E","T","Y"," ","P","O","L","I","C","Y"," ","a^","euro","ldquo"," ","U","N","I","T","E","D"," ","S","T","A","T","E","S"," ","F","E","D","E","R","A","L"," ","A","V","I","A","T","I","O","N"," ","A","D","M","I","N","I","S","T","R","A","T","I","O","N"," ","(","R","C","-","S","M","M",")">>,
      <<"C","O","D","E"," ","O","F"," ","C","O","N","D","U","C","T"," ","F","O","R"," ","C","O","N","D","U","C","T","I","N","G"," ","B","U","S","I","N","E","S","S"," ","O","F"," ","A","I","R"," ","T","R","A","N","S","P","O","R","T"," ","S","E","R","V","I","C","E","S"," ","G","R","O","U","P",","," ","I","N","C","."," ","(","R","C","-","T","H","P","P","H",")">>,
      <<"E","Q","U","A","L"," ","O","P","P","O","R","T","U","N","I","T","Y"," ","E","M","P","L","O","Y","M","E","N","T">>,
      <<"O","P","E","N"," ","D","O","O","R"," ","P","O","L","I","C","Y"," ","(","R","C","-","T","H","P","P","H",")">>,
      <<"H","A","R","A","S","S","M","E","N","T">>,
      <<"H","U","M","A","N"," ","T","R","A","F","F","I","C","K","I","N","G"," ","P","O","L","I","C","Y"," ","A","N","D"," ","C","O","M","P","L","I","A","N","C","E"," ","P","L","A","N"," ","(","R","C","-","T","H","P","P","H",")">> }

heading_3_matches ==
    { <<"1","4"," ","C","F","R"," ","P","a","r","t"," ","5",".","9","5","(","a",")">>,
      <<"G","E","N","E","R","A","L"," ","P","O","L","I","C","Y"," ","S","T","A","T","E","M","E","N","T">>,
      <<"E","M","P","L","O","Y","E","E"," ","R","E","S","P","O","N","S","I","B","I","L","I","T","I","E","S">>,
      <<"C","O","R","E"," ","R","E","Q","U","I","R","E","M","E","N","T","S">>,
      <<"M","A","N","A","G","E","M","E","N","T"," ","R","E","S","P","O","N","S","I","B","I","L","I","T","I","E","S">>,
      <<"C","O","M","P","L","I","A","N","C","E",","," ","R","E","P","O","R","T","I","N","G",","," ","W","A","I","V","E","R","S"," ","A","N","D"," ","A","M","E","N","D","M","E","N","T","S">>,
      <<"R","E","P","O","R","T","I","N","G"," ","H","A","R","A","S","S","M","E","N","T"," ","O","R"," ","O","T","H","E","R"," ","E","M","P","L","O","Y","M","E","N","T"," ","D","I","S","C","R","I","M","I","N","A","T","I","O","N">>,
      <<"I","N","V","E","S","T","I","G","A","T","I","O","N"," ","P","R","O","C","E","S","S"," ","F","O","R"," ","R","E","P","O","R","T","S"," ","O","F"," ","H","A","R","A","S","S","M","E","N","T"," ","O","R"," ","O","T","H","E","R"," ","E","M","P","L","O","Y","M","E","N","T"," ","D","I","S","C","R","I","M","I","N","A","T","I","O","N">>,
      <<"S","C","O","P","E">>,
      <<"P","O","L","I","C","Y"," ","S","T","A","T","E","M","E","N","T">> }

heading_4_matches ==
    { <<"C","r","e","d","i","t"," ","C","a","r","d"," ","D","e","t","a","i","l","s">>,
      <<"P","r","o","c","e","d","u","r","e"," ","t","o"," ","A","c","t","i","v","a","t","e"," ","a","n","d"," ","U","s","e"," ","Y","o","u","r"," ","N","e","w"," ","C","h","a","s","e"," ","V","i","s","a"," ","C","r","e","d","i","t"," ","C","a","r","d">>,
      <<"L","A","D","I","E","S"," ","W","E","A","R"," ","G","U","I","D","E">>,
      <<"M","E","N","'","S"," ","W","E","A","R"," ","G","U","I","D","E">>,
      <<"O","v","e","r","v","i","e","w",":">>,
      <<"W","h","a","t"," ","i","s"," ","t","h","e"," ","t","e","r","m"," ","o","f"," ","o","u","r"," ","c","u","r","r","e","n","t"," ","a","g","r","e","e","m","e","n","t"," ","w","i","t","h"," ","U","n","i","t","e","d","?">>,
      <<"H","o","w"," ","d","o"," ","I"," ","s","i","g","n"," ","u","p","?">>,
      <<"W","h","a","t"," ","i","n","f","o","r","m","a","t","i","o","n"," ","d","o"," ","I"," ","n","e","e","d"," ","t","o"," ","i","n","c","l","u","d","e","?">>,
      <<"D","o"," ","w","e"," ","h","a","v","e"," ","t","r","a","v","e","l"," ","b","e","n","e","f","i","t","s"," ","f","o","r"," ","s","i","g","n","i","f","i","c","a","n","t"," ","o","t","h","e","r","s"," ","o","r"," ","p","a","r","t","n","e","r","s"," ","o","n"," ","U","n","i","t","e","d",".">>,
      <<"W","h","y"," ","i","s"," ","e","m","a","i","l"," ","r","e","q","u","i","r","e","d"," ","t","o"," ","p","a","r","t","i","c","i","p","a","t","e"," ","i","n"," ","t","h","e"," ","U","n","i","t","e","d"," ","P","a","s","s"," ","P","r","o","g","r","a","m","?">> }

heading_5_matches ==
    { <<"B","l","a","c","k"," ","o","r"," ","L","i","g","h","t"," ","C","h","a","r","c","o","a","l"," ","D","r","e","s","s"," ","W","e","a","r"," ","O","p","t","i","o","n","s">>,
      <<"P","a","n","t"," ","&"," ","S","k","i","r","t"," ","W","e","a","r"," ","O","p","t","i","o","n","s">>,
      <<"A","d","d","i","t","i","o","n","a","l"," ","P","a","n","t"," ","&"," ","S","k","i","r","t"," ","W","e","a","r"," ","O","p","t","i","o","n","s">>,
      <<"O","p","t","i","o","n","a","l"," ","U","n","i","f","o","r","m"," ","P","i","e","c","e","s">>,
      <<"S","q","u","a","l","l"," ","S","y","s","t","e","m">>,
      <<"M","e","n","'","s"," ","P","a","n","t"," ","W","e","a","r"," ","O","p","t","i","o","n","s">> }

normal_matches ==
    { <<"T","A","B","L","E"," ","O","F"," ","C","O","N","T","E","N","T","S">>,
      <<"\"","S","A","F","E","T","Y","\"">> }

h2_keywords == { <<"D","E","F","I","N","I","T","I","O","N","S">>, <<"P","O","L","I","C","Y">>, <<"P","R","O","C","E","D","U","R","E">>, <<"B","E","N","E","F","I","T","S">>, <<"R","E","Q","U","I","R","E","M","E","N","T","S">> }

h3_keywords == { <<"S","C","O","P","E">>, <<"P","U","R","P","O","S","E">>, <<"G","E","N","E","R","A","L">>, <<"E","M","P","L","O","Y","E","E">>, <<"M","A","N","A","G","E","M","E","N","T">>, <<"C","O","R","E">> }

\* re.match(r'^Appendix [A-Z] ', text_clean)
AppendixPattern(t) ==
    /\ Len(t) >= 11
    /\ SubSeq(t, 1, 9) = <<"A","p","p","e","n","d","i","x"," ">>
    /\ t[10] \in UpperSet
    /\ t[11] = " "

\* re.match(r'^\d+ CFR Part ', text_clean)
CfrPattern(t) ==
    LET d == DigitsEnd(t, 1)
    IN  d >= 1 /\ d + 10 <= Len(t) /\ SubSeq(t, d + 1, d + 10) = <<" ","C","F","R"," ","P","a","r","t"," ">>

pattern_classify(text) ==
    LET text_clean == str_strip(text)
        text_lower == str_lower(text_clean)
    IN  IF text_clean \in heading_1_matches THEN Heading1
        ELSE IF text_clean \in heading_2_matches THEN Heading2
        ELSE IF text_clean \in heading_3_matches THEN Heading3
        ELSE IF text_clean \in heading_4_matches THEN Heading4
        ELSE IF text_clean \in heading_5_matches THEN Heading5
        ELSE IF text_clean \in normal_matches THEN Normal
        ELSE IF AppendixPattern(text_clean) THEN Heading1
        ELSE IF str_isupper(text_clean)
                /\ (Contains(text_clean, <<"(","R","C","-","T","H","P","P","H",")">>) \/ Contains(text_clean, <<"(","R","C","-","S","M","M",")">>))
             THEN Heading2
        ELSE IF str_isupper(text_clean) /\ Len(text_clean) < 60
                /\ \E keyword \in h2_keywords : Contains(text_clean, keyword)
             THEN Heading2
        ELSE IF CfrPattern(text_clean) THEN Heading3
        ELSE IF str_isupper(text_clean) /\ Len(text_clean) < 50
                /\ \E keyword \in h3_keywords : Contains(text_clean, keyword)
             THEN Heading3
        ELSE IF StartsWith(text_clean, <<"N","O","T","E",":">>) THEN Heading4
        ELSE IF EndsWith(text_clean, << "?" >>) THEN Heading4
        ELSE IF (Contains(text_clean, <<"O","p","t","i","o","n","s">>) \/ Contains(text_clean, <<"S","y","s","t","e","m">>))
                /\ Len(text_clean) < 50
             THEN Heading5
        ELSE IF StartsWith(text_clean, <<"N","O","T","E",":">>)
                /\ Contains(text_clean, <<"p","u","r","p","o","s","e","s"," ","o","f"," ","t","h","i","s"," ","C","o","d","e">>)
             THEN Normal
        ELSE IF ListPattern(text_clean, PatternBasedMarkers) THEN ListParagraph
        ELSE IF \E verb \in imperative_starts : StartsWith(text_lower, verb)
             THEN ListParagraph
        ELSE IF \E phrase \in modal_phrases : Contains(text_lower, phrase)
             THEN ListParagraph
        ELSE BodyText

\* the confidences of quick_rule_classify, in hundredths
Confidence95 == 95

Confidence90 == 90

Confidence85 == 85

ConfidenceThreshold == 85

quick_list_prefixes ==
    { <<"lowquote","A:","cent">>, <<"-">>, <<"*">>, <<"lowquote","o'","pilcrow">>, <<"lowquote","n~","integral">> }

quick_imperative_starts ==
    { <<"r","e","a","d",",">>, <<"u","n","d","e","r","s","t","a","n","d">>, <<"c","o","m","p","l","y">>, <<"r","e","p","o","r","t">>, <<"m","a","i","n","t","a","i","n">>, <<"a","v","o","i","d">>,
      <<"u","s","e">>, <<"r","e","s","p","e","c","t">>, <<"p","r","o","m","o","t","e">>, <<"c","o","o","p","e","r","a","t","e">>, <<"e","n","s","u","r","e">>, <<"f","o","l","l","o","w">> }

quick_modal_phrases == { <<"m","u","s","t"," ">>, <<"s","h","a","l","l"," ">>, <<"w","i","l","l"," ">>, <<"s","h","o","u","l","d"," ">> }

NoStyle == << >>

\* (style, confidence); (None, 0.0) is << NoStyle, 0 >>
quick_rule_classify(text) ==
    LET text_clean == str_strip(text)
        text_lower == str_lower(text_clean)
    IN  IF \E prefix \in quick_list_prefixes : StartsWith(text_clean, prefix)
             THEN << ListParagraph, Confidence95 >>
        ELSE IF Len(text_clean) >= 2 /\ text_clean[1] \in DigitSet \ { "0" }
                /\ text_clean[2] = "."
             THEN << ListParagraph, Confidence95 >>
        ELSE IF \E verb \in quick_imperative_starts : StartsWith(text_lower, verb)
             THEN << ListParagraph, Confidence90 >>
        ELSE IF \E phrase \in quick_modal_phrases : Contains(text_lower, phrase)
             THEN << ListParagraph, Confidence85 >>
        ELSE IF str_isupper(text_clean) /\ Len(text_clean) < 100
                /\ ~EndsWith(text_clean, << "." >>)
             THEN IF Len(text_clean) < 30 THEN << Heading2, Confidence90 >>
                  ELSE << Heading1, Confidence90 >>
        ELSE IF StartsWith(text_clean, <<"A","p","p","e","n","d","i","x"," ">>) THEN << Heading1, Confidence95 >>
        ELSE IF StartsWith(text_clean, <<"N","O","T","E",":">>) THEN << Heading4, Confidence90 >>
        ELSE IF EndsWith(text_clean, << "?" >>) THEN << Heading4, Confidence85 >>
        ELSE << NoStyle, 0 >>

--------------------------------------------------------------------------
(* The multi-stage and the pattern-based formatter                         *)

Styles ==
    { Heading1, Heading2, Heading3, Heading4, Heading5, BodyText, ListParagraph, Normal }

\* the paragraph styles of the template a new Document() starts from
TemplateStyles == Styles \cup { <<"T","i","t","l","e">>, <<"H","e","a","d","i","n","g"," ","6">> }

\* new_para.style = style, 'Body Text' when the assignment raises
ApplyStyle(style) == IF style \in TemplateStyles THEN style ELSE BodyText

\* Counter of the styles of the paragraphs of a document
StyleCounts(paragraphs) ==
    [ s \in Styles |-> Cardinality({ k \in DOMAIN paragraphs : paragraphs[k].style = s }) ]

\* text[:n]
Truncate(t, n) == SubSeq(t, 1, IF Len(t) < n THEN Len(t) ELSE n)

DebugSample == 50

\* MultiStageFormatter.format_document: the saved document, debug_info and
\* the returned (total_processed, total_filtered, style_counts)
multi_stage_format_document(paragraphs) ==
    LET all_paragraphs == SelectSeq(paragraphs, NonBlank)
        stage1_paragraphs == stage1_navigation_filter(all_paragraphs)
        stage2_paragraphs == stage2_metadata_filter(stage1_paragraphs)
        classified_content == stage3_classify_content(stage2_paragraphs)
        Dropped1(p) == ~Stage1Kept(p)
        Dropped2(p) == ~Stage2Kept(p)
        dropped1 == SelectSeq(all_paragraphs, Dropped1)
        dropped2 == SelectSeq(stage1_paragraphs, Dropped2)
        new_doc == [ k \in DOMAIN classified_content |->
                       [ text  |-> classified_content[k].text,
                         style |-> ApplyStyle(classified_content[k].style) ] ]
    IN  [ new_doc |-> new_doc,
          debug_info |->
            [ stage1 |-> [ k \in DOMAIN dropped1 |->
                             << str_strip(dropped1[k]), stage1_reason(dropped1[k]) >> ],
              stage2 |-> [ k \in DOMAIN dropped2 |->
                             << str_strip(dropped2[k]), stage2_reason(dropped2[k]) >> ],
              stage3 |-> [ k \in DOMAIN classified_content |->
                             << Truncate(classified_content[k].text, DebugSample),
                                classified_content[k].style >> ] ],
          returned |->
            [ total_processed |-> Len(classified_content),
              total_filtered  |-> Len(all_paragraphs) - Len(classified_content),
              style_counts    |-> StyleCounts(new_doc) ] ]

\* PatternBasedFormatter.format_document: the saved document, rule_calls and
\* the returned (processed_count, filtered_count, style_counts)
pattern_based_format_document(paragraphs) ==
    LET all_paragraphs == SelectSeq(paragraphs, NonBlank)
        Kept(p) == enhanced_filter(str_strip(p))
        kept == SelectSeq(all_paragraphs, Kept)
        new_doc == [ k \in DOMAIN kept |->
                       [ text  |-> str_strip(kept[k]),
                         style |-> ApplyStyle(pattern_classify(str_strip(kept[k]))) ] ]
    IN  [ new_doc |-> new_doc,
          rule_calls |-> Len(kept),
          returned |->
            [ processed_count |-> Len(kept),
              filtered_count  |-> Len(all_paragraphs) - Len(kept),
              style_counts    |-> StyleCounts(new_doc) ] ]

MaxSessions == 2

max_retries == 3

FilterTimeout == 15

ClassifyTimeout == 20

FilterPromptLen == 500

ClassifyPromptLen == 800

PreviousTextLen == 200

SaveEvery == 50

\* paragraph texts of the documents that are formatted
FormatTexts ==
    { <<" ","I","N","T","E","N","T","I","O","N","A","L","L","Y"," ","L","E","F","T"," ","B","L","A","N","K"," ">>,
      <<"P","a","g","e"," ","3"," ","i","n","t","e","n","t","i","o","n","a","l","l","y"," ","l","e","f","t"," ","b","l","a","n","k">>,
      <<"T","A","B","L","E"," ","O","F"," ","C","O","N","T","E","N","T","S"," ","T","h","i","s"," ","P","a","g","e"," ","I","n","t","e","n","t","i","o","n","a","l","l","y"," ","L","e","f","t"," ","B","l","a","n","k">>,
      <<"T","A","B","L","E"," ","O","F"," ","C","O","N","T","E","N","T","S">>,
      <<"E","M","P","L","O","Y","M","E","N","T"," ","P","O","L","I","C","I","E","S">>,
      <<"E","m","p","l","o","y","e","e","s"," ","m","u","s","t"," ","r","e","p","o","r","t",".">>,
      <<"P","a","g","e"," ","3">>,
      <<" ">> }

\* a document with a paragraph for stage 1 to drop, one for stage 2 to drop and
\* two that reach stage 3
MixedDoc ==
    << <<"T","A","B","L","E"," ","O","F"," ","C","O","N","T","E","N","T","S">>, <<"E","M","P","L","O","Y","M","E","N","T"," ","P","O","L","I","C","I","E","S">>,
       <<"P","a","g","e"," ","3"," ","i","n","t","e","n","t","i","o","n","a","l","l","y"," ","l","e","f","t"," ","b","l","a","n","k">>, <<"E","m","p","l","o","y","e","e","s"," ","m","u","s","t"," ","r","e","p","o","r","t",".">> >>

FormatDocs == UNION { [ 1..n -> FormatTexts ] : n \in 0..MaxParas } \cup { MixedDoc }

\* paragraphs of the documents of the overnight runs: a page marker that the
\* quick rules drop, a heading that the quick rules classify, and a sentence
\* that has to go to the LLM
BlankPagePara == <<"P","a","g","e"," ","3"," ","i","n","t","e","n","t","i","o","n","a","l","l","y"," ","l","e","f","t"," ","b","l","a","n","k">>
RuleHeadingPara == <<"E","M","P","L","O","Y","M","E","N","T"," ","P","O","L","I","C","I","E","S">>
LlmPara == <<"E","m","p","l","o","y","e","e","s"," ","m","u","s","t"," ","r","e","p","o","r","t",".">>

\* a document long enough for the save of every 50 paragraphs to be due twice
LongDoc ==
    [ k \in 1..(SaveEvery + 2) |-> IF k = 1 THEN RuleHeadingPara ELSE BlankPagePara ]

\* the document of a later run on another document
OtherDoc == << LlmPara >>

OvernightDocs ==
    { << >>,
      << BlankPagePara >>,
      << LlmPara >>,
      << BlankPagePara, RuleHeadingPara >>,
      << RuleHeadingPara, LlmPara >>,
      << LlmPara, BlankPagePara >>,
      LongDoc }

Formatters == { "multi_stage", "pattern_based", "overnight" }

\* the input_path and output_path a formatter is run with
Paths == [ input_path : { "in.docx" }, output_path : { "in.docx", "out.docx" } ]

\* the overnight runs are those of main(), whose output_path is not its
\* input_path
OvernightPaths == { p \in Paths : p.output_path # p.input_path }

\* new_doc.save(output_path): the files at output_path and at input_path
Save(new_doc) ==
    /\ output_doc' = [ paragraphs |-> new_doc ]
    /\ input_doc' = IF paths.output_path = paths.input_path
                    THEN [ k \in DOMAIN new_doc |-> new_doc[k].text ]
                    ELSE input_doc

NewOvernight ==
    [ processed_paragraphs |-> << >>, current_index |-> 0, llm_calls |-> 0,
      rule_hits |-> 0, start_time |-> None ]

FormatInit ==
    /\ formatter \in Formatters
    /\ paths \in IF formatter = "overnight" THEN OvernightPaths ELSE Paths
    /\ input_doc \in IF formatter = "overnight" THEN OvernightDocs ELSE FormatDocs
    /\ output_doc = None
    /\ debug_info = [ stage1 |-> << >>, stage2 |-> << >>, stage3 |-> << >> ]
    /\ rule_calls = 0
    /\ ov = NewOvernight
    /\ run = [ pc |-> "idle", session |-> 0, resume |-> FALSE, i |-> 0, attempt |-> 0,
               slept |-> << >>, all_paragraphs |-> << >>, text |-> << >>,
               previous_text |-> << >>, new_doc |-> << >>, saved_at |-> 0 ]
    /\ progress_file = None
    /\ request = None
    /\ result = None
    /\ NoContentPreservation
    /\ NoHtml
    /\ NoRollback
    /\ NoValidation

MultiStageFormat ==
    /\ formatter = "multi_stage"
    /\ result = None
    /\ LET r == multi_stage_format_document(input_doc)
       IN  /\ Save(r.new_doc)
           /\ debug_info' = r.debug_info
           /\ result' = [ returned |-> r.returned ]
    /\ UNCHANGED << formatter, paths, rule_calls, ov, run, progress_file, request,
                    notFmtVars >>

PatternBasedFormat ==
    /\ formatter = "pattern_based"
    /\ result = None
    /\ LET r == pattern_based_format_document(input_doc)
       IN  /\ Save(r.new_doc)
           /\ rule_calls' = r.rule_calls
           /\ result' = [ returned |-> r.returned ]
    /\ UNCHANGED << formatter, paths, debug_info, ov, run, progress_file, request,
                    notFmtVars >>

--------------------------------------------------------------------------
(* The overnight formatter: process_document with its calls to the Ollama  *)
(* server, the progress file and the shutdown signals                      *)

\* response texts of the model
LlmResponses ==
    { <<"F","I","L","T","E","R">>, <<"I","N","C","L","U","D","E">>, <<" ","h","e","a","d","i","n","g"," ","3","\n">>, << >> }

\* what the server does with GET /api/tags
TagsOutcomes == { "ok", "model_missing", "bad_status", "exception" }

\* ways a POST /api/generate fails
GenerateFailures == { "bad_status", "timeout", "malformed", "exception" }

llm_styles ==
    << <<"H","E","A","D","I","N","G"," ","1">>, <<"H","E","A","D","I","N","G"," ","2">>, <<"H","E","A","D","I","N","G"," ","3">>, <<"H","E","A","D","I","N","G"," ","4">>, <<"H","E","A","D","I","N","G"," ","5">>,
       <<"B","O","D","Y"," ","T","E","X","T">>, <<"L","I","S","T"," ","P","A","R","A","G","R","A","P","H">>, <<"N","O","R","M","A","L">> >>

\* requests.get(f"{self.ollama_host}/api/tags")
\* the timeout of a request: the empty set when none is given (requests then
\* waits for the answer without limit), else the set of its value
NoTimeout == { }

Timeout(seconds) == { seconds }

TagsRequest ==
    [ method |-> "GET", url |-> "/api/tags", timeout |-> NoTimeout, prompt |-> None ]

\* call_ollama(prompt, max_retries, timeout): one requests.post
GenerateRequest(prompt, timeout) ==
    [ method |-> "POST", url |-> "/api/generate", timeout |-> timeout, prompt |-> prompt ]

\* doc = Document(input_path) and its paragraphs with text
AllParagraphs == SelectSeq(input_doc, NonBlank)

FilterRequest(text) ==
    GenerateRequest([ template |-> "filtering_prompt",
                      text |-> Truncate(text, FilterPromptLen),
                      previous_text |-> << >> ],
                    Timeout(FilterTimeout))

ClassifyRequest(text, previous_text) ==
    GenerateRequest([ template |-> "classification_prompt",
                      text |-> Truncate(text, ClassifyPromptLen),
                      previous_text |-> Truncate(previous_text, PreviousTextLen) ],
                    Timeout(ClassifyTimeout))

\* what call_ollama returns: a response text, or None when it gave up
Returned(text) == [ text |-> text ]

\* llm_filter once call_ollama has returned
llm_filter_decision(response) ==
    IF response # None /\ response.text # << >>
    THEN IF Contains(str_upper(response.text), <<"F","I","L","T","E","R">>) THEN FALSE
         ELSE IF Contains(str_upper(response.text), <<"I","N","C","L","U","D","E">>) THEN TRUE
         ELSE TRUE
    ELSE TRUE

\* llm_classify that has no label for a call that failed
llm_classify_style_unlabelled(response) ==
    IF response = None THEN NoStyle
    ELSE IF response.text = << >> THEN BodyText
    ELSE LET response_upper == str_upper(response.text)
             hits == { k \in DOMAIN llm_styles : Contains(response_upper, llm_styles[k]) }
         IN  IF hits = {} THEN BodyText
             ELSE str_title(llm_styles[CHOOSE k \in hits : \A j \in hits : k <= j])

\* llm_classify that returns the reply as it came
llm_classify_style_as_replied(response) ==
    IF response # None /\ response.text # << >> THEN response.text ELSE BodyText

\* llm_classify once call_ollama has returned
llm_classify_style(response) ==
    IF response # None /\ response.text # << >>
    THEN LET response_upper == str_upper(response.text)
             hits == { k \in DOMAIN llm_styles : Contains(response_upper, llm_styles[k]) }
         IN  IF hits = {} THEN BodyText
             ELSE str_title(llm_styles[CHOOSE k \in hits : \A j \in hits : k <= j])
    ELSE BodyText

\* progress_data written by _save_progress
_save_progress(o) ==
    [ processed_paragraphs |-> o.processed_paragraphs,
      current_index |-> o.current_index,
      llm_calls |-> o.llm_calls,
      rule_hits |-> o.rule_hits,
      start_time |-> o.start_time ]

\* the progress file between open(self.progress_file, 'wb'), which empties it,
\* and the end of pickle.dump
Partial == [ partial |-> TRUE ]

\* _load_progress returns True: the file exists and pickle.load does not raise
Loadable(file) == file # None /\ file # Partial

ParagraphText(i) == str_strip(run.all_paragraphs[i + 1])

PreviousText(i) == IF i > 0 THEN str_strip(run.all_paragraphs[i]) ELSE << >>

\* time.time() in a session
Clock(session) == [ time |-> session ]

\* the locals of process_document between two iterations of its loop
AtLoop(i) ==
    [ run EXCEPT !.pc = "loop", !.i = i, !.attempt = 0, !.slept = << >>,
                 !.text = << >>, !.previous_text = << >> ]

\* the process has ended: what is left of it is how it ended (saved_at is
\* history: the index of the loop at which the session last found its
\* progress saved, by its own save or, when it skips a paragraph, by the
\* snapshot it resumed from)
Ended(pc) ==
    [ pc |-> pc, session |-> run.session, resume |-> FALSE, i |-> 0, attempt |-> 0,
      slept |-> << >>, all_paragraphs |-> << >>, text |-> << >>,
      previous_text |-> << >>, new_doc |-> << >>, saved_at |-> 0 ]

\* the pcs at which the process is running
Running ==
    { "connecting", "loop", "filter_call", "filter_backoff", "classify_call",
      "classify_backoff", "appended", "saving", "writing" }

\* a new process runs main(): the formatter is constructed and process_document
\* sends its connection test
OvStart(resume) ==
    /\ formatter = "overnight"
    /\ run.pc \in { "idle", "failed", "exited", "raised", "killed" }
    /\ run.session < MaxSessions
    /\ ov' = NewOvernight
    /\ run' = [ Ended("connecting") EXCEPT !.session = run.session + 1, !.resume = resume ]
    /\ request' = TagsRequest
    /\ result' = None
    /\ UNCHANGED << formatter, paths, input_doc, output_doc, debug_info, rule_calls,
                    progress_file, notFmtVars >>

\* a new process runs process_document on another document, with an
\* output_path of its own, in the working directory an earlier run has ended in
OvStartOther(resume) ==
    /\ formatter = "overnight"
    /\ run.pc \in { "failed", "exited", "raised", "killed" }
    /\ run.session < MaxSessions
    /\ input_doc # OtherDoc
    /\ input_doc' = OtherDoc
    /\ output_doc' = None
    /\ ov' = NewOvernight
    /\ run' = [ Ended("connecting") EXCEPT !.session = run.session + 1, !.resume = resume ]
    /\ request' = TagsRequest
    /\ result' = None
    /\ UNCHANGED << formatter, paths, debug_info, rule_calls, progress_file, notFmtVars >>

\* test_ollama_connection returns, and process_document goes on to the loop
OvTagsAnswer(outcome) ==
    /\ run.pc = "connecting"
    /\ request' = None
    /\ IF outcome = "ok"
       THEN /\ ov' = IF run.resume /\ Loadable(progress_file)
                     THEN progress_file
                     ELSE [ ov EXCEPT !.start_time = Clock(run.session) ]
            /\ run' = [ AtLoop(0) EXCEPT !.all_paragraphs = AllParagraphs ]
            /\ result' = result
       ELSE /\ run' = Ended("failed")
            /\ result' = [ returned |-> FALSE ]
            /\ ov' = NewOvernight
    /\ UNCHANGED << formatter, paths, input_doc, output_doc, debug_info, rule_calls,
                    progress_file, notFmtVars >>

\* self.processed_paragraphs.append({'text': text, 'style': style, 'index': i})
Appended(o, text, style, i) ==
    [ o EXCEPT !.processed_paragraphs =
                   Append(@, [ text |-> text, style |-> style, index |-> i ]) ]

\* one iteration of the paragraph loop, up to its continue, to its append or to
\* its first call of the model
OvParagraph ==
    /\ run.pc = "loop"
    /\ run.i < Len(run.all_paragraphs)
    /\ LET i == run.i
           text == ParagraphText(i)
           rule == quick_rule_classify(text)
       IN  IF i < ov.current_index
           THEN /\ run' = [ AtLoop(i + 1) EXCEPT !.saved_at = i + 1 ]
                /\ UNCHANGED << ov, request >>
           ELSE IF ~quick_rule_filter(text)
           THEN /\ ov' = [ ov EXCEPT !.rule_hits = @ + 1 ]
                /\ run' = AtLoop(i + 1)
                /\ UNCHANGED request
           ELSE IF rule[1] # NoStyle /\ rule[2] > ConfidenceThreshold
           THEN /\ ov' = Appended([ ov EXCEPT !.rule_hits = @ + 1 ], text, rule[1], i)
                /\ run' = [ run EXCEPT !.pc = "appended", !.text = text,
                                       !.previous_text = PreviousText(i) ]
                /\ UNCHANGED request
           ELSE /\ request' = FilterRequest(text)
                /\ run' = [ run EXCEPT !.pc = "filter_call", !.text = text,
                                       !.previous_text = PreviousText(i) ]
                /\ UNCHANGED ov
    /\ UNCHANGED << formatter, paths, input_doc, output_doc, debug_info, rule_calls,
                    progress_file, result, notFmtVars >>

\* self.current_index = i + 1, and the open(self.progress_file, 'wb') of
\* _save_progress when i % 50 == 0
OvAdvance ==
    /\ run.pc = "appended"
    /\ ov' = [ ov EXCEPT !.current_index = run.i + 1 ]
    /\ IF run.i % SaveEvery = 0
       THEN /\ progress_file' = Partial
            /\ run' = [ run EXCEPT !.pc = "saving" ]
       ELSE /\ run' = AtLoop(run.i + 1)
            /\ UNCHANGED progress_file
    /\ UNCHANGED << formatter, paths, input_doc, output_doc, debug_info, rule_calls,
                    request, result, notFmtVars >>

\* pickle.dump(progress_data, f) of the save of the loop, and the next iteration
OvSaved ==
    /\ run.pc = "saving"
    /\ progress_file' = _save_progress(ov)
    /\ run' = [ AtLoop(run.i + 1) EXCEPT !.saved_at = run.i ]
    /\ UNCHANGED << formatter, paths, input_doc, output_doc, debug_info, rule_calls, ov,
                    request, result, notFmtVars >>

\* call_ollama returns response (None after the last failed attempt) to
\* llm_filter or llm_classify, and the iteration goes on from there
AfterCall(o, response) ==
    IF run.pc = "filter_call"
    THEN IF llm_filter_decision(response)
         THEN /\ request' = ClassifyRequest(run.text, run.previous_text)
              /\ run' = [ run EXCEPT !.pc = "classify_call", !.attempt = 0,
                                     !.slept = << >> ]
              /\ ov' = o
         ELSE /\ request' = None
              /\ run' = AtLoop(run.i + 1)
              /\ ov' = o
    ELSE /\ request' = None
         /\ run' = [ run EXCEPT !.pc = "appended" ]
         /\ ov' = Appended(o, run.text, llm_classify_style(response), run.i)

\* the server answers the pending requests.post with status 200
OvResponse(response) ==
    /\ run.pc \in { "filter_call", "classify_call" }
    /\ AfterCall([ ov EXCEPT !.llm_calls = @ + 1 ], Returned(str_strip(response)))
    /\ UNCHANGED << formatter, paths, input_doc, output_doc, debug_info, rule_calls,
                    progress_file, result, notFmtVars >>

\* call_ollama that gives up at the first failed attempt
OvFailureNoRetry(failure) ==
    /\ run.pc \in { "filter_call", "classify_call" }
    /\ failure = "timeout" => request.timeout # NoTimeout
    /\ AfterCall(ov, None)
    /\ UNCHANGED << formatter, paths, input_doc, output_doc, debug_info, rule_calls,
                    progress_file, result, notFmtVars >>

\* the pending requests.post fails: another status, the timeout of the
\* request expires, the reply is not the expected JSON, or another exception
OvFailure(failure) ==
    /\ run.pc \in { "filter_call", "classify_call" }
    /\ failure = "timeout" => request.timeout # NoTimeout
    /\ IF run.attempt < max_retries - 1
       THEN /\ request' = None
            /\ run' = [ run EXCEPT !.pc = IF run.pc = "filter_call"
                                          THEN "filter_backoff" ELSE "classify_backoff",
                                   !.slept = Append(@, 2 ^ run.attempt) ]
            /\ UNCHANGED ov
       ELSE AfterCall(ov, None)
    /\ UNCHANGED << formatter, paths, input_doc, output_doc, debug_info, rule_calls,
                    progress_file, result, notFmtVars >>

\* time.sleep(2 ** attempt) is over: the next attempt of call_ollama
OvRetry ==
    /\ run.pc \in { "filter_backoff", "classify_backoff" }
    /\ request' = IF run.pc = "filter_backoff"
                  THEN FilterRequest(run.text)
                  ELSE ClassifyRequest(run.text, run.previous_text)
    /\ run' = [ run EXCEPT !.pc = IF run.pc = "filter_backoff"
                                  THEN "filter_call" ELSE "classify_call",
                           !.attempt = @ + 1 ]
    /\ UNCHANGED << formatter, paths, input_doc, output_doc, debug_info, rule_calls, ov,
                    progress_file, result, notFmtVars >>

\* the loop is over: new_doc = Document()
OvCreate ==
    /\ run.pc = "loop"
    /\ run.i = Len(run.all_paragraphs)
    /\ run' = [ run EXCEPT !.pc = "writing", !.new_doc = << >> ]
    /\ UNCHANGED << formatter, paths, input_doc, output_doc, debug_info, rule_calls, ov,
                    progress_file, request, result, notFmtVars >>

\* the next of self.processed_paragraphs, for the loop that fills new_doc
NextItem == ov.processed_paragraphs[Len(run.new_doc) + 1]

\* new_doc.add_paragraph(item['text']) and new_para.style = item['style']
OvWrite ==
    /\ run.pc = "writing"
    /\ Len(run.new_doc) < Len(ov.processed_paragraphs)
    /\ run' = [ run EXCEPT !.new_doc =
                    Append(@, [ text |-> NextItem.text, style |-> ApplyStyle(NextItem.style) ]) ]
    /\ UNCHANGED << formatter, paths, input_doc, output_doc, debug_info, rule_calls, ov,
                    progress_file, request, result, notFmtVars >>

\* the loop is over and new_doc is filled: the output document is saved; the
\* final statistics divide by the processing time, which is 0 when start_time
\* is None; then the progress file is removed
OvFinish ==
    /\ run.pc = "writing"
    /\ Len(run.new_doc) = Len(ov.processed_paragraphs)
    /\ Save(run.new_doc)
    /\ IF ov.start_time = None
       THEN /\ run' = Ended("raised")
            /\ result' = [ raised |-> "ZeroDivisionError" ]
            /\ UNCHANGED progress_file
       ELSE /\ run' = Ended("done")
            /\ result' = [ returned |-> TRUE ]
            /\ progress_file' = None
    /\ ov' = NewOvernight
    /\ UNCHANGED << formatter, paths, debug_info, rule_calls, request, notFmtVars >>

\* SIGINT or SIGTERM: _signal_handler saves the progress and exits
OvSignal ==
    /\ run.pc \in Running
    /\ progress_file' = _save_progress(ov)
    /\ run' = Ended("exited")
    /\ ov' = NewOvernight
    /\ request' = None
    /\ UNCHANGED << formatter, paths, input_doc, output_doc, debug_info, rule_calls,
                    result, notFmtVars >>

\* SIGINT or SIGTERM inside the try of the loop that fills new_doc:
\* _signal_handler saves the progress, the bare except catches the SystemExit
\* of its sys.exit(0) and styles the paragraph 'Body Text', and the loop goes on
OvSignalInTry ==
    /\ run.pc = "writing"
    /\ Len(run.new_doc) < Len(ov.processed_paragraphs)
    /\ progress_file' = _save_progress(ov)
    /\ run' = [ run EXCEPT !.new_doc =
                    Append(@, [ text |-> NextItem.text, style |-> BodyText ]) ]
    /\ UNCHANGED << formatter, paths, input_doc, output_doc, debug_info, rule_calls, ov,
                    request, result, notFmtVars >>

\* the process is killed (SIGKILL, power loss): nothing more is written
OvKill ==
    /\ run.pc \in Running
    /\ run' = Ended("killed")
    /\ ov' = NewOvernight
    /\ request' = None
    /\ UNCHANGED << formatter, paths, input_doc, output_doc, debug_info, rule_calls,
                    progress_file, result, notFmtVars >>

\* SIGINT or SIGTERM, and the process is killed while _signal_handler is in
\* pickle.dump
OvSignalKilled ==
    /\ run.pc \in Running
    /\ progress_file' = Partial
    /\ run' = Ended("killed")
    /\ ov' = NewOvernight
    /\ request' = None
    /\ UNCHANGED << formatter, paths, input_doc, output_doc, debug_info, rule_calls,
                    result, notFmtVars >>

FormatNext ==
    \/ MultiStageFormat
    \/ PatternBasedFormat
    \/ \E resume \in BOOLEAN : OvStart(resume)
    \/ \E resume \in BOOLEAN : OvStartOther(resume)
    \/ \E outcome \in TagsOutcomes : OvTagsAnswer(outcome)
    \/ OvParagraph
    \/ OvAdvance
    \/ OvSaved
    \/ \E response \in LlmResponses : OvResponse(response)
    \/ \E failure \in GenerateFailures : OvFailure(failure)
    \/ OvRetry
    \/ OvCreate
    \/ OvWrite
    \/ OvFinish
    \/ OvSignal
    \/ OvSignalInTry
    \/ OvKill
    \/ OvSignalKilled

FormatSpec == FormatInit /\ [][FormatNext]_vars

\* a pending request ends, by its answer or by its timeout at the latest
OvAnswer ==
    \/ \E response \in LlmResponses : OvResponse(response)
    \/ \E failure \in GenerateFailures : OvFailure(failure)

\* the runs in which every request ends and every time.sleep returns
FormatLive == FormatSpec /\ WF_vars(OvAnswer) /\ WF_vars(OvRetry)

(***************************************************************************)
(* Properties of the formatters                                            *)
(***************************************************************************)

\* the stripped, lower-cased text of the paragraph contains the blank-page phrase
IntentionallyLeftBlank(para_text) ==
    Contains(str_lower(str_strip(para_text)), <<"i","n","t","e","n","t","i","o","n","a","l","l","y"," ","l","e","f","t"," ","b","l","a","n","k">>)

\* no paragraph of the written paragraphs is a blank-page paragraph
NoneLeftBlank(written) ==
    \A k \in DOMAIN written : ~IntentionallyLeftBlank(written[k].text)

\* C2: no paragraph whose stripped, lower-cased text contains "intentionally
\* left blank" survives stage2_metadata_filter, whether stage 2 is given what
\* stage 1 kept or the paragraphs stage 1 never saw; stage 2 filters such a
\* paragraph for one of the two blank-page reasons, which are decided before
\* every other rule of the stage; and no such paragraph is in the document a
\* multi-stage, pattern-based or overnight run writes, nor in what the
\* overnight run has processed or saved so far. (Stage 2 is put to every
\* document a run starts from; what is written is looked at in every state.)
C2_BlankPagesNeverSurvive ==
    /\ \A i \in DOMAIN input_doc :
          IntentionallyLeftBlank(input_doc[i]) =>
              stage2_reason(input_doc[i]) \in
                  { "intentionally left blank (exact)",
                    "intentionally left blank (variant)" }
    /\ LET kept == stage2_metadata_filter(input_doc)
       IN  \A k \in DOMAIN kept : ~IntentionallyLeftBlank(kept[k])
    /\ LET kept == stage2_metadata_filter(stage1_navigation_filter(input_doc))
       IN  \A k \in DOMAIN kept : ~IntentionallyLeftBlank(kept[k])
    /\ [](/\ output_doc # None => NoneLeftBlank(output_doc.paragraphs)
          /\ NoneLeftBlank(ov.processed_paragraphs)
          /\ Loadable(progress_file) =>
                NoneLeftBlank(progress_file.processed_paragraphs))

\* a multi-stage run has written a document with paragraphs in it, from an
\* input with a blank-page paragraph that stage 1 let through to stage 2
C2_Witness ==
    /\ formatter = "multi_stage"
    /\ output_doc # None
    /\ Len(output_doc.paragraphs) > 0
    /\ \E i \in DOMAIN input_doc :
          /\ IntentionallyLeftBlank(input_doc[i])
          /\ Stage1Kept(input_doc[i])
    /\ \E k \in DOMAIN debug_info.stage2 :
          IntentionallyLeftBlank(debug_info.stage2[k][1])

\* C10: every request an overnight run has sent to the Ollama server and is
\* waiting on (the connection test, a filter call, a classification call)
\* carries a timeout.
C10_EveryRequestHasTimeout ==
    request # None => request.timeout # NoTimeout

\* call_ollama has a request pending / is asleep between two attempts
InCall == run.pc \in { "filter_call", "classify_call" }
InBackoff == run.pc \in { "filter_backoff", "classify_backoff" }

\* the waits 2^0, 2^1, ... of the first n failed attempts
Backoffs(n) == [ k \in 1..n |-> 2 ^ (k - 1) ]

\* call_ollama never makes more than max_retries requests, each with a timeout,
\* and between them it has slept 1 s, 2 s, ...; it never sleeps after the last
\* attempt
CallBounded ==
    /\ InCall =>
          /\ run.attempt \in 0..(max_retries - 1)
          /\ request.timeout # NoTimeout
          /\ run.slept = Backoffs(run.attempt)
    /\ InBackoff =>
          /\ run.attempt \in 0..(max_retries - 2)
          /\ request = None
          /\ run.slept = Backoffs(run.attempt + 1)

\* an answer with status 200 ends the call at once; a call that ends without
\* one (the process going on) has failed max_retries times and returned None:
\* llm_filter then keeps the paragraph, llm_classify labels it 'Body Text'
CallReturns ==
    /\ (\E response \in LlmResponses : OvResponse(response)) =>
          /\ ov'.llm_calls = ov.llm_calls + 1
          /\ run.pc = "filter_call" => run'.pc \in { "loop", "classify_call" }
          /\ run.pc = "classify_call" => run'.pc = "appended"
    /\ (InCall /\ run'.pc \in { "loop", "classify_call", "appended" }
          /\ ov'.llm_calls = ov.llm_calls) =>
          /\ run.attempt = max_retries - 1
          /\ run.pc = "filter_call" => run'.pc = "classify_call"
          /\ run.pc = "classify_call" =>
                /\ run'.pc = "appended"
                /\ ov'.processed_paragraphs[Len(ov'.processed_paragraphs)].style = BodyText

\* C11: call_ollama always terminates: at most max_retries requests, each with
\* its timeout, 2^attempt seconds of sleep between consecutive failed attempts
\* and none after the last, the reply returned at the first status 200, None
\* returned once every attempt has failed.
C11_CallOllamaTerminates ==
    /\ []CallBounded
    /\ [][CallReturns]_vars
    /\ (InCall \/ InBackoff) ~> ~(InCall \/ InBackoff)

\* the last attempt of a classification call has failed after the waits of
\* 1 s and 2 s, no call of the session having been answered
C11_Witness ==
    /\ run.pc = "appended"
    /\ run.attempt = max_retries - 1
    /\ run.slept = Backoffs(max_retries - 1)
    /\ ov.llm_calls = 0
    /\ ov.processed_paragraphs[Len(ov.processed_paragraphs)].style = BodyText

\* the step is the failure of the last attempt of a call
LastAttemptFails ==
    /\ InCall
    /\ run.attempt = max_retries - 1
    /\ \E failure \in GenerateFailures : OvFailure(failure)

\* the texts of the written paragraphs
Texts(written) == [ k \in DOMAIN written |-> written[k].text ]

\* C12: when every attempt of a call for a paragraph has failed, the run goes
\* on with that paragraph: after the filter call it asks for its
\* classification, after the classification call it records it with the label
\* 'Body Text'; a recorded paragraph stays recorded while the process runs, the
\* loop goes on with the next paragraph, and the saved document holds every
\* recorded paragraph, the ones recorded as 'Body Text' with that label.
C12_FailedCallFallsBack ==
    /\ [][LastAttemptFails =>
            IF run.pc = "filter_call"
            THEN /\ run'.pc = "classify_call"
                 /\ request' = ClassifyRequest(run.text, run.previous_text)
                 /\ ov' = ov
            ELSE /\ run'.pc = "appended"
                 /\ ov'.processed_paragraphs =
                       Append(ov.processed_paragraphs,
                              [ text |-> run.text, style |-> BodyText, index |-> run.i ])]_vars
    /\ [][(run.pc = "appended" /\ run'.pc \in Running) =>
            /\ ov'.processed_paragraphs = ov.processed_paragraphs
            /\ run'.pc \in { "loop", "saving" }
            /\ run'.pc = "loop" => run'.i = run.i + 1]_vars
    /\ [][(run.pc = "writing" /\ run'.pc \in { "done", "raised" }) =>
            /\ Texts(output_doc'.paragraphs) = Texts(ov.processed_paragraphs)
            /\ \A k \in DOMAIN ov.processed_paragraphs :
                  ov.processed_paragraphs[k].style = BodyText =>
                      output_doc'.paragraphs[k].style = BodyText]_vars

\* the filter call of a paragraph was answered, every attempt of its
\* classification call has failed, and the paragraph is recorded as 'Body Text'
C12_Witness ==
    /\ run.pc = "appended"
    /\ run.attempt = max_retries - 1
    /\ ov.llm_calls > 0
    /\ ov.processed_paragraphs[Len(ov.processed_paragraphs)] =
          [ text |-> LlmPara, style |-> BodyText, index |-> run.i ]

\* the stripped texts of the paragraphs of the input document
StrippedInput == [ k \in DOMAIN input_doc |-> str_strip(input_doc[k]) ]

\* the recorded paragraphs are recorded in the order of the input, each once
RecordedOnce(recorded) ==
    \A j, k \in DOMAIN recorded : j < k => recorded[j].index < recorded[k].index

\* C13: across interrupted and resumed sessions of an overnight run no
\* paragraph is recorded twice: the recorded paragraphs, in the run and in
\* the snapshot, follow the order of the input, each index once, and the
\* saved document holds kept paragraphs of the input in their order, each
\* once.
C13_ResumeRecordsEachParagraphOnce ==
    formatter = "overnight" =>
       /\ RecordedOnce(ov.processed_paragraphs)
       /\ Loadable(progress_file) => RecordedOnce(progress_file.processed_paragraphs)
       /\ output_doc # None => IsSubsequence(Texts(output_doc.paragraphs), StrippedInput)

\* the step is the arrival of SIGINT or SIGTERM at the running process
SignalReceived == OvSignal \/ OvSignalInTry

\* C14: whenever the overnight formatter receives SIGINT or SIGTERM, the
\* snapshot of its current state is saved and the process exits: it does
\* nothing more with any paragraph.
C14_SignalSavesAndExits ==
    [][SignalReceived =>
          /\ progress_file' = _save_progress(ov)
          /\ run'.pc = "exited"]_vars

\* C15: the progress of an overnight run is saved every 50 input paragraphs:
\* the loop is never more than 50 paragraphs past the index at which the
\* session last found its progress saved.
C15_SavedEveryFiftyParagraphs ==
    run.pc \in Running => run.i - run.saved_at <= SaveEvery

\* C16: the progress snapshot is written atomically: at every instant the
\* progress file is absent or a complete snapshot written by _save_progress.
C16_ProgressFileAbsentOrComplete ==
    progress_file = None \/ Loadable(progress_file)

\* replies of the model to a classification prompt: a label, a label inside a
\* sentence, a label the instructions do not list, other words, nothing
ClassifyReplies ==
    LlmResponses \cup { <<"T","h","e"," ","s","t","y","l","e"," ","i","s"," ","l","i","s","t"," ","p","a","r","a","g","r","a","p","h",".">>, <<"T","i","t","l","e">>, <<"H","e","a","d","i","n","g"," ","6">> }

\* the labels of the recorded paragraphs
RecordedStyles(recorded) == { recorded[k].style : k \in DOMAIN recorded }

\* the reply names none of the eight labels
Unrecognised(reply) ==
    \A k \in DOMAIN llm_styles : ~Contains(str_upper(str_strip(reply)), llm_styles[k])

\* C17: every label the overnight formatter stores for a paragraph, from the
\* quick rules or from the model and whatever the model replies, is one of
\* the eight labels of the closed set; an empty or unrecognised reply gives
\* 'Body Text'.
C17_StoredLabelsInClosedSet ==
    /\ [](formatter = "overnight" =>
            /\ RecordedStyles(ov.processed_paragraphs) \subseteq Styles
            /\ Loadable(progress_file) =>
                  RecordedStyles(progress_file.processed_paragraphs) \subseteq Styles
            /\ output_doc # None =>
                  RecordedStyles(output_doc.paragraphs) \subseteq Styles)
    /\ \A reply \in ClassifyReplies :
          /\ llm_classify_style(Returned(str_strip(reply))) \in Styles
          /\ Unrecognised(reply) =>
                llm_classify_style(Returned(str_strip(reply))) = BodyText
    /\ llm_classify_style(None) = BodyText

\* a paragraph labelled by the quick rules and one labelled from a reply of
\* the model are recorded
C17_Witness ==
    /\ formatter = "overnight"
    /\ ov.llm_calls >= 2
    /\ Len(ov.processed_paragraphs) = 2
    /\ ov.processed_paragraphs[1] = [ text |-> RuleHeadingPara, style |-> Heading2, index |-> 0 ]
    /\ ov.processed_paragraphs[2] = [ text |-> LlmPara, style |-> Heading3, index |-> 1 ]

\* the non-empty paragraphs of the input document
NonEmptyInput == SelectSeq(input_doc, NonBlank)

\* the stripped texts of a sequence of paragraphs
Stripped(paragraphs) == [ k \in DOMAIN paragraphs |-> str_strip(paragraphs[k]) ]

\* the number of paragraphs of a sequence that satisfy Test
CountOf(paragraphs, Test(_)) == Cardinality({ k \in DOMAIN paragraphs : Test(paragraphs[k]) })

\* C18: the paragraphs the multi-stage format_document writes are an
\* order-preserving subsequence of the non-empty paragraphs of the input:
\* they are, in the order of the input, the stripped texts of the paragraphs
\* that stage 1 keeps and stage 2 keeps; stage 1 diagnoses the paragraphs it
\* drops, stage 2 those of the survivors of stage 1 that it drops, stage 3
\* labels every survivor of stage 2, and the processed count plus the
\* filtered count is the input count.
C18_OutputIsOrderedSubsequence ==
    [][MultiStageFormat =>
         LET written == output_doc'.paragraphs
             DroppedAt1(p) == ~Stage1Kept(p)
             DroppedAt2(p) == Stage1Kept(p) /\ ~Stage2Kept(p)
             Survives(p) == Stage1Kept(p) /\ Stage2Kept(p)
         IN  /\ IsSubsequence(Texts(written), Stripped(NonEmptyInput))
             /\ Texts(written) = Stripped(SelectSeq(NonEmptyInput, Survives))
             /\ Len(debug_info'.stage1) = CountOf(NonEmptyInput, DroppedAt1)
             /\ Len(debug_info'.stage2) = CountOf(NonEmptyInput, DroppedAt2)
             /\ \A k \in DOMAIN written : written[k].style \in Styles
             /\ result'.returned.total_processed = Len(written)
             /\ result'.returned.total_processed + result'.returned.total_filtered
                   = Len(NonEmptyInput)]_vars

\* a run has dropped a paragraph at stage 1 and another at stage 2 and has
\* written the two others in the order of the input
C18_Witness ==
    /\ formatter = "multi_stage"
    /\ result # None
    /\ Len(debug_info.stage1) = 1
    /\ Len(debug_info.stage2) = 1
    /\ Texts(output_doc.paragraphs) = << RuleHeadingPara, LlmPara >>
    /\ result.returned.total_filtered = 2

\* the rules of stage 1 in their order in the code, each with its reason
Stage1Rules ==
    << "too short", "table of contents", "table of contents variant",
       "master table of contents", "master table variant", "record of revisions",
       "revision highlights", "list of effective sections", "list of effective pages",
       "dotted lines (TOC)", "page reference", "TOC entry with page numbers" >>

\* rule k of stage 1 matches the stripped text
Stage1Matches(k, text) ==
    CASE k = 1  -> Len(text) < 3
      [] k = 2  -> text = <<"T","A","B","L","E"," ","O","F"," ","C","O","N","T","E","N","T","S">>
      [] k = 3  -> Contains(str_lower(text), <<"t","a","b","l","e"," ","o","f"," ","c","o","n","t","e","n","t","s">>)
      [] k = 4  -> text = <<"M","A","S","T","E","R"," ","T","A","B","L","E"," ","O","F"," ","C","O","N","T","E","N","T","S">>
      [] k = 5  -> Contains(str_lower(text), <<"m","a","s","t","e","r"," ","t","a","b","l","e">>)
      [] k = 6  -> Contains(str_lower(text), <<"r","e","c","o","r","d"," ","o","f"," ","r","e","v","i","s","i","o","n","s">>)
      [] k = 7  -> Contains(str_lower(text), <<"r","e","v","i","s","i","o","n"," ","h","i","g","h","l","i","g","h","t","s">>)
      [] k = 8  -> Contains(str_lower(text), <<"l","i","s","t"," ","o","f"," ","e","f","f","e","c","t","i","v","e"," ","s","e","c","t","i","o","n","s">>)
      [] k = 9  -> Contains(str_lower(text), <<"l","i","s","t"," ","o","f"," ","e","f","f","e","c","t","i","v","e"," ","p","a","g","e","s">>)
      [] k = 10 -> DottedLine(text)
      [] k = 11 -> PageReference(text)
      [] k = 12 -> TocEntry(text)

\* paragraphs that match several rules of stage 1, one rule, or none
Stage1Texts ==
    FormatTexts \cup
    { <<"M","A","S","T","E","R"," ","T","A","B","L","E"," ","O","F"," ","C","O","N","T","E","N","T","S">>, <<"M","a","s","t","e","r"," ","T","a","b","l","e">>, <<"A","-","1">>, <<"1",".","2"," ","S","c","o","p","e"," ",".",".",".",".","."," ","7">>,
      <<"R","e","c","o","r","d"," ","o","f"," ","R","e","v","i","s","i","o","n","s"," ",".",".",".",".",".",".">>, <<"L","i","s","t"," ","o","f"," ","E","f","f","e","c","t","i","v","e"," ","P","a","g","e","s">>, <<"a","b">>,
      <<"1",".","2"," ","S","c","o","p","e"," ",".",".","."," ","7">>, <<"R","e","v","i","s","i","o","n"," ","H","i","g","h","l","i","g","h","t","s">>, <<"L","i","s","t"," ","o","f"," ","E","f","f","e","c","t","i","v","e"," ","S","e","c","t","i","o","n","s">>,
      <<" ","t","a","b","l","e"," ","o","f"," ","c","o","n","t","e","n","t","s"," ">> }

\* the rules of stage 1 that match a paragraph
Stage1Matching(para_text) ==
    { k \in DOMAIN Stage1Rules : Stage1Matches(k, str_strip(para_text)) }

\* the first of a non-empty set of rules
FirstRule(rules) == CHOOSE k \in rules : \A j \in rules : k <= j

\* stage 1 drops the paragraph
Stage1Drops(para_text) == Stage1Matching(para_text) # { }

\* C19: stage 1 drops a paragraph if and only if at least one of its rules
\* matches it, and records for each dropped paragraph one reason, that of the
\* first matching rule in the order of the rules; the paragraph
\* 'TABLE OF CONTENTS' is dropped at stage 1 with the reason
\* "table of contents".
C19_FirstMatchingRuleWins ==
    [][MultiStageFormat =>
         LET dropped == SelectSeq(NonEmptyInput, Stage1Drops)
         IN  /\ \A t \in Stage1Texts :
                   /\ ~Stage1Kept(t) <=> Stage1Drops(t)
                   /\ Stage1Drops(t) =>
                         stage1_reason(t) = Stage1Rules[FirstRule(Stage1Matching(t))]
             /\ ~Stage1Kept(<<"T","A","B","L","E"," ","O","F"," ","C","O","N","T","E","N","T","S">>)
             /\ stage1_reason(<<"T","A","B","L","E"," ","O","F"," ","C","O","N","T","E","N","T","S">>) = "table of contents"
             /\ debug_info'.stage1 =
                   [ k \in DOMAIN dropped |->
                       << str_strip(dropped[k]),
                          Stage1Rules[FirstRule(Stage1Matching(dropped[k]))] >> ]
             /\ \A k \in DOMAIN output_doc'.paragraphs :
                   ~Stage1Drops(output_doc'.paragraphs[k].text)]_vars

\* a run has dropped the paragraph 'TABLE OF CONTENTS' at stage 1, with the
\* reason of the exact rule though the substring rule matches it too, and has
\* kept others
C19_Witness ==
    /\ formatter = "multi_stage"
    /\ result # None
    /\ debug_info.stage1 = << << <<"T","A","B","L","E"," ","O","F"," ","C","O","N","T","E","N","T","S">>, "table of contents" >> >>
    /\ Len(output_doc.paragraphs) = 2
    /\ Cardinality(Stage1Matching(<<"T","A","B","L","E"," ","O","F"," ","C","O","N","T","E","N","T","S">>)) = 2

\* C20: no formatter run writes to its input document: whatever input_path
\* and output_path it is given, no step of a run changes the document at
\* input_path.
C20_InputNeverWritten == [][input_doc' = input_doc]_vars

\* C21: the output of an overnight run on a document depends on that document
\* only, not on a document processed earlier in the same working directory:
\* every paragraph the run has recorded or written is a paragraph of its own
\* input document.
C21_OutputFromOwnDocumentOnly ==
    formatter = "overnight" =>
       /\ \A k \in DOMAIN ov.processed_paragraphs :
             \E j \in DOMAIN input_doc :
                 ov.processed_paragraphs[k].text = str_strip(input_doc[j])
       /\ output_doc # None =>
             \A k \in DOMAIN output_doc.paragraphs :
                 \E j \in DOMAIN input_doc :
                     output_doc.paragraphs[k].text = str_strip(input_doc[j])

\* C27: the remote model is consulted for a paragraph only when the quick rules
\* give no label or a confidence below the threshold: when quick_rule_classify
\* returns a label with a confidence not below the threshold, the paragraph is
\* recorded with that label and no request is sent for it.
C27_RemoteOnlyBelowThreshold ==
    [][(/\ OvParagraph
        /\ run.i >= ov.current_index
        /\ quick_rule_filter(ParagraphText(run.i))
        /\ quick_rule_classify(ParagraphText(run.i))[1] # NoStyle
        /\ quick_rule_classify(ParagraphText(run.i))[2] >= ConfidenceThreshold) =>
           /\ request' = request
           /\ run'.pc = "appended"
           /\ Len(ov'.processed_paragraphs) = Len(ov.processed_paragraphs) + 1
           /\ ov'.processed_paragraphs[Len(ov'.processed_paragraphs)].style =
                 quick_rule_classify(ParagraphText(run.i))[1]]_vars
--------------------------------------------------------------------------
(* RollbackManager: backups, rollbacks and the audit trail                *)

\* audit entries a manager is followed for
MaxAudit == 3

\* the seconds in which the calls are made
Seconds == { 0, 1 }

\* the documents, what a document holds, and the document that is not there
RbDocs == { "doc.txt", "other.txt" }

Contents == { "v1", "v2" }

Absent == "absent"

\* the operation id the callers of create_backup give
OperationIds == { "op_001" }

\* a dict with one more item, and a dict without some keys
Put(dict, key, value) ==
    [ k \in DOMAIN dict \cup { key } |-> IF k = key THEN value ELSE dict[k] ]

Drop(dict, keys) == [ k \in DOMAIN dict \ keys |-> dict[k] ]

\* the ContentFingerprint the caller has made of a content
FingerprintOf(content) ==
    [ full_text_hash |-> content, timestamp |-> [ datetime |-> 0 ] ]

\* f"backup_{datetime.now().strftime('%Y%m%d_%H%M%S')}_{operation_id}"
BackupId(now, operation_id) == << now, operation_id >>

BackupIds == Seconds \X OperationIds

\* self.backup_dir / f"{backup_id}_{source_path.name}"
BackupPath(backup_id, document_path) ==
    << "backup", backup_id[1], backup_id[2], document_path >>

\* self.backup_dir / f"pre_rollback_{now}_{current_path.name}"
PreRollbackPath(now, target_path) == << "pre_rollback", now, "", target_path >>

\* RollbackManager.__init__ before _load_audit_data
NewManager == [ audit_entries |-> << >>, backup_records |-> << >> ]

\* what json.dump(..., default=str) and json.load make of the details of an
\* entry: the datetime of a fingerprint comes back as a string
JsonDetails(details) ==
    IF "fingerprint" \in DOMAIN details
    THEN [ details EXCEPT !.fingerprint.timestamp =
             IF "datetime" \in DOMAIN @ THEN [ str |-> @.datetime ] ELSE @ ]
    ELSE details

\* _save_audit_data: the content of the audit file
_save_audit_data(m) ==
    [ audit_entries |->
        [ k \in DOMAIN m.audit_entries |->
            [ m.audit_entries[k] EXCEPT !.details = JsonDetails(@) ] ],
      backup_records |-> { m.backup_records[id] : id \in DOMAIN m.backup_records } ]

\* _load_audit_data: the fields of a manager constructed over the audit file
_load_audit_data(file) ==
    IF file = None THEN NewManager
    ELSE [ audit_entries |-> file.audit_entries,
           backup_records |->
             [ id \in { record.backup_id : record \in file.backup_records } |->
                 CHOOSE record \in file.backup_records : record.backup_id = id ] ]

\* AuditEntry(...) of _add_audit_entry
AuditEntry(operation_id, operation_type, document_path, details, user_id,
           fingerprint_before, fingerprint_after) ==
    [ operation_id |-> operation_id, operation_type |-> operation_type,
      timestamp |-> clock, document_path |-> document_path, user_id |-> user_id,
      details |-> details, fingerprint_before |-> fingerprint_before,
      fingerprint_after |-> fingerprint_after ]

\* _add_audit_entry: the entry is appended and the audit data is saved
_add_audit_entry(m, entry) ==
    LET added == [ m EXCEPT !.audit_entries = Append(@, entry) ]
    IN  /\ manager' = added
        /\ audit_file' = _save_audit_data(added)

\* target_path=None
NoTargetPath == ""

\* the target paths rollback_document is called with
TargetPaths == { NoTargetPath, "doc.txt" }

\* how a call ended
Raised(method, error) == [ method |-> method, raised |-> error ]

ReturnedFrom(method, value) == [ method |-> method, returned |-> value ]

RollbackInit ==
    /\ files = [ d \in RbDocs |-> IF d = "doc.txt" THEN "v1" ELSE Absent ]
    /\ backup_dir = << >>
    /\ audit_file = None
    /\ manager = NewManager
    /\ clock = 0
    /\ call = None
    /\ NoContentPreservation
    /\ NoHtml
    /\ NoFormatter
    /\ NoValidation

\* create_backup(document_path, fingerprint, operation_id)
CreateBackup(document_path, operation_id) ==
    IF files[document_path] = Absent
    THEN /\ call' = Raised("create_backup", "FileNotFoundError")
         /\ UNCHANGED << files, backup_dir, audit_file, manager, clock, notRbVars >>
    ELSE LET backup_id == BackupId(clock, operation_id)
             backup_path == BackupPath(backup_id, document_path)
             taken == FingerprintOf(files[document_path])
             backup_record ==
                 [ backup_id |-> backup_id, original_path |-> document_path,
                   backup_path |-> backup_path, timestamp |-> clock,
                   fingerprint |-> taken, operation_id |-> operation_id ]
         IN  /\ Len(manager.audit_entries) < MaxAudit
             /\ backup_dir' = Put(backup_dir, backup_path, files[document_path])
             /\ _add_audit_entry(
                    [ manager EXCEPT !.backup_records = Put(@, backup_id, backup_record) ],
                    AuditEntry([ operation_id |-> operation_id ], "document_processed",
                               document_path,
                               [ backup_id |-> backup_id, backup_path |-> backup_path ],
                               None, [ hash |-> taken.full_text_hash ], None))
             /\ call' = ReturnedFrom("create_backup", [ backup_id |-> backup_id ])
             /\ UNCHANGED << files, clock, notRbVars >>

\* rollback_document making its pre-rollback copy before it looks for the
\* backup file
RollbackDocumentCopyFirst(backup_id, given_path) ==
    IF backup_id \notin DOMAIN manager.backup_records
    THEN /\ call' = ReturnedFrom("rollback_document", [ bool |-> FALSE ])
         /\ UNCHANGED << files, backup_dir, audit_file, manager, clock, notRbVars >>
    ELSE LET backup_record == manager.backup_records[backup_id]
             target_path == IF given_path = NoTargetPath
                            THEN backup_record.original_path ELSE given_path
             saved == IF files[target_path] # Absent
                      THEN Put(backup_dir, PreRollbackPath(clock, target_path),
                               files[target_path])
                      ELSE backup_dir
         IN  /\ backup_dir' = saved
             /\ IF backup_record.backup_path \notin DOMAIN backup_dir
                THEN /\ call' = ReturnedFrom("rollback_document", [ bool |-> FALSE ])
                     /\ UNCHANGED << files, audit_file, manager >>
                ELSE /\ Len(manager.audit_entries) < MaxAudit
                     /\ files' = [ files EXCEPT
                                     ![target_path] = backup_dir[backup_record.backup_path] ]
                     /\ _add_audit_entry(
                            manager,
                            AuditEntry([ rollback |-> clock ], "rollback_executed",
                                       target_path,
                                       [ restored_from_backup |-> backup_id,
                                         backup_timestamp |-> backup_record.timestamp,
                                         original_operation |-> backup_record.operation_id ],
                                       None, None,
                                       [ hash |-> backup_record.fingerprint.full_text_hash ]))
                     /\ call' = ReturnedFrom("rollback_document", [ bool |-> TRUE ])
             /\ UNCHANGED << clock, notRbVars >>

\* rollback_document(backup_id, target_path)
RollbackDocument(backup_id, given_path) ==
    IF \/ backup_id \notin DOMAIN manager.backup_records
       \/ manager.backup_records[backup_id].backup_path \notin DOMAIN backup_dir
    THEN /\ call' = ReturnedFrom("rollback_document", [ bool |-> FALSE ])
         /\ UNCHANGED << files, backup_dir, audit_file, manager, clock, notRbVars >>
    ELSE LET backup_record == manager.backup_records[backup_id]
             target_path == IF given_path = NoTargetPath
                            THEN backup_record.original_path ELSE given_path
             saved == IF files[target_path] # Absent
                      THEN Put(backup_dir, PreRollbackPath(clock, target_path),
                               files[target_path])
                      ELSE backup_dir
         IN  /\ Len(manager.audit_entries) < MaxAudit
             /\ backup_dir' = saved
             /\ files' = [ files EXCEPT ![target_path] = backup_dir[backup_record.backup_path] ]
             /\ _add_audit_entry(
                    manager,
                    AuditEntry([ rollback |-> clock ], "rollback_executed", target_path,
                               [ restored_from_backup |-> backup_id,
                                 backup_timestamp |-> backup_record.timestamp,
                                 original_operation |-> backup_record.operation_id ],
                               None, None,
                               [ hash |-> backup_record.fingerprint.full_text_hash ]))
             /\ call' = ReturnedFrom("rollback_document", [ bool |-> TRUE ])
             /\ UNCHANGED << clock, notRbVars >>

\* the validation request and the responses log_validation_event is given
ValidationStatuses == { "submitted", "approved", "rejected" }

\* the manager has logged an event of the type
Logged(operation_type) ==
    \E k \in DOMAIN manager.audit_entries :
        manager.audit_entries[k].operation_type = operation_type

\* log_validation_event(validation_request, validation_response), for a
\* request that is submitted once and then answered once
LogValidationEvent(document_path, status) ==
    LET taken == FingerprintOf("v1")
        details ==
            IF status = "submitted"
            THEN [ request_id |-> "req_1", changes_count |-> 1,
                   fingerprint |-> taken ]
            ELSE [ request_id |-> "req_1", changes_count |-> 1,
                   reviewer_comments |-> "", reviewer_id |-> "reviewer" ]
    IN  /\ Len(manager.audit_entries) < MaxAudit
        /\ Logged("validation_submitted") <=> status # "submitted"
        /\ ~Logged("validation_approved") /\ ~Logged("validation_rejected")
        /\ _add_audit_entry(
               manager,
               AuditEntry([ operation_id |-> "req_1" ], "validation_" \o status,
                          document_path, details,
                          IF status = "submitted" THEN None
                          ELSE [ user |-> "reviewer" ],
                          [ hash |-> taken.full_text_hash ],
                          IF status = "approved"
                          THEN [ hash |-> taken.full_text_hash ] ELSE None))
        /\ call' = ReturnedFrom("log_validation_event", None)
        /\ UNCHANGED << files, backup_dir, clock, notRbVars >>

\* retention_days, in the seconds of the clock
Retentions == { 0, 1 }

\* cleanup_old_backups(retention_days): a record made before the call is
\* older than the cutoff of a retention of 0
CleanupOldBackups(retention) ==
    LET backups_to_remove ==
            { id \in DOMAIN manager.backup_records :
                manager.backup_records[id].timestamp <= clock - retention }
        old_paths == { manager.backup_records[id].backup_path : id \in backups_to_remove }
    IN  /\ backup_dir' = Drop(backup_dir, old_paths)
        /\ manager' = [ manager EXCEPT !.backup_records = Drop(@, backups_to_remove) ]
        /\ call' = ReturnedFrom("cleanup_old_backups",
                                [ count |-> Cardinality(backups_to_remove) ])
        /\ UNCHANGED << files, audit_file, clock, notRbVars >>

\* a new RollbackManager over the same backup directory and audit file
Reopen ==
    /\ manager' = _load_audit_data(audit_file)
    /\ call' = ReturnedFrom("__init__", None)
    /\ UNCHANGED << files, backup_dir, audit_file, clock, notRbVars >>

\* the document is written by its owner
WriteDocument(document_path, content) ==
    /\ files[document_path] # content
    /\ files' = [ files EXCEPT ![document_path] = content ]
    /\ call' = None
    /\ UNCHANGED << backup_dir, audit_file, manager, clock, notRbVars >>

\* a file of the backup directory is removed from outside
RemoveBackupFile(path) ==
    /\ path \in DOMAIN backup_dir
    /\ backup_dir' = Drop(backup_dir, { path })
    /\ call' = None
    /\ UNCHANGED << files, audit_file, manager, clock, notRbVars >>

\* a second passes
Tick ==
    /\ clock + 1 \in Seconds
    /\ clock' = clock + 1
    /\ call' = None
    /\ UNCHANGED << files, backup_dir, audit_file, manager, notRbVars >>

RollbackNext ==
    \/ \E d \in RbDocs, op \in OperationIds : CreateBackup(d, op)
    \/ \E id \in BackupIds, t \in TargetPaths : RollbackDocument(id, t)
    \/ \E s \in ValidationStatuses : LogValidationEvent("doc.txt", s)
    \/ \E r \in Retentions : CleanupOldBackups(r)
    \/ Reopen
    \/ \E c \in Contents : WriteDocument("doc.txt", c)
    \/ \E p \in DOMAIN backup_dir : RemoveBackupFile(p)
    \/ Tick

RollbackSpec == RollbackInit /\ [][RollbackNext]_vars

--------------------------------------------------------------------------
(* Claims about the rollback manager                                      *)

\* the backup id is unknown to the manager, or the file of its backup is missing
UnknownOrMissing(backup_id) ==
    \/ backup_id \notin DOMAIN manager.backup_records
    \/ manager.backup_records[backup_id].backup_path \notin DOMAIN backup_dir

\* no file, no record and no audit entry changes
NothingTouched == UNCHANGED << files, backup_dir, audit_file, manager >>

\* C22: rollback_document called with an unknown backup id, or with a backup
\* whose file is missing, returns False, modifies no file and adds no audit
\* entry; create_backup called on a source that does not exist raises
\* FileNotFoundError and leaves the backup records and the audit log unchanged.
C22_NotFoundChangesNothing ==
    /\ [][\A id \in BackupIds, t \in TargetPaths :
            (UnknownOrMissing(id) /\ RollbackDocument(id, t)) =>
                /\ call' = ReturnedFrom("rollback_document", [ bool |-> FALSE ])
                /\ NothingTouched]_vars
    /\ [][\A d \in RbDocs, op \in OperationIds :
            (files[d] = Absent /\ CreateBackup(d, op)) =>
                /\ call' = Raised("create_backup", "FileNotFoundError")
                /\ NothingTouched]_vars

\* rollback_document has returned False for a recorded backup whose file is
\* missing, while the document it would have restored is there
C22_Witness ==
    /\ call = ReturnedFrom("rollback_document", [ bool |-> FALSE ])
    /\ \E id \in DOMAIN manager.backup_records :
          /\ manager.backup_records[id].backup_path \notin DOMAIN backup_dir
          /\ files[manager.backup_records[id].original_path] # Absent

\* the entries create_backup has logged for the backup id
BackupEntries(backup_id) ==
    { k \in DOMAIN manager.audit_entries :
        /\ manager.audit_entries[k].operation_type = "document_processed"
        /\ manager.audit_entries[k].details.backup_id = backup_id }

\* what the document held at the calls of create_backup that returned the id
BackedUpContents(backup_id) ==
    { manager.audit_entries[k].fingerprint_before.hash : k \in BackupEntries(backup_id) }

\* the path a rollback of the backup writes to
TargetOf(backup_id, given_path) ==
    IF given_path = NoTargetPath
    THEN manager.backup_records[backup_id].original_path ELSE given_path

\* C23: after create_backup has succeeded for a document, a successful
\* rollback_document with the backup id it returned, whatever was done to the
\* document and whatever backups were made in between, leaves the document
\* with the content it had at the time of that backup, and appends one
\* ROLLBACK_EXECUTED audit entry.
C23_RollbackRestoresBackedUpContent ==
    [][\A id \in BackupIds, t \in TargetPaths :
          (~UnknownOrMissing(id) /\ RollbackDocument(id, t)) =>
              /\ \A content \in BackedUpContents(id) :
                    files'[TargetOf(id, t)] = content
              /\ Len(manager'.audit_entries) = Len(manager.audit_entries) + 1
              /\ SubSeq(manager'.audit_entries, 1, Len(manager.audit_entries))
                    = manager.audit_entries
              /\ manager'.audit_entries[Len(manager'.audit_entries)].operation_type
                    = "rollback_executed"]_vars

\* C24: after any sequence of create_backup, rollback_document,
\* log_validation_event and cleanup_old_backups, a new RollbackManager
\* constructed over the same backup directory and audit file holds the audit
\* entries and the backup records of the manager that performed them.
C24_ReopenedManagerHoldsSame == _load_audit_data(audit_file) = manager

\* get_available_backups(document_path)
get_available_backups(document_path) ==
    { manager.backup_records[id] : id \in { i \in DOMAIN manager.backup_records :
          manager.backup_records[i].original_path = document_path } }

\* C30: every successful create_backup stores its record under a backup id
\* that no existing record uses and its file under a name that no stored
\* file uses, so the record and the file of an earlier backup stay as they
\* are, and get_available_backups for the document returns one record more.
C30_BackupIdsNeverReused ==
    [][\A d \in RbDocs, op \in OperationIds :
          (files[d] # Absent /\ CreateBackup(d, op)) =>
              /\ call'.returned.backup_id \notin DOMAIN manager.backup_records
              /\ \A id \in DOMAIN manager.backup_records :
                    /\ manager'.backup_records[id] = manager.backup_records[id]
                    /\ manager.backup_records[id].backup_path \in DOMAIN backup_dir =>
                          backup_dir'[manager.backup_records[id].backup_path]
                             = backup_dir[manager.backup_records[id].backup_path]
              /\ Cardinality(get_available_backups(d)') =
                    Cardinality(get_available_backups(d)) + 1]_vars


---------------------------------------------------------------------------
(* HumanValidationInterface (src/legacy/src/validation_interface.py)      *)
(*                                                                         *)
(* interface holds the two dictionaries of one HumanValidationInterface,  *)
(* clock is datetime.now() to the second, call is what the last           *)
(* submit_for_validation returned and http_response what the last route   *)
(* handler returned.                                                       *)

MaxRequests == 2

HvDocs == { "a.docx", "b.docx" }

ReviewerComments == { "ok" }

\* the 'request_id' of a posted body: None when the body has no such key
PostedIds ==
    [ second : Seconds, count : 0 .. MaxRequests ] \cup { None }

\* f"val_{datetime.now().strftime('%Y%m%d_%H%M%S')}_{len(self.pending_requests)}"
ValRequestId(now, pending_requests) ==
    [ second |-> now, count |-> Cardinality(DOMAIN pending_requests) ]

ValidationRequestOf(request_id, document_path, now) ==
    [ request_id |-> request_id, document_path |-> document_path,
      timestamp |-> now, status |-> "pending" ]

ValidationResponseOf(request_id, status, reviewer_comments, now) ==
    [ request_id |-> request_id, status |-> status,
      reviewer_comments |-> reviewer_comments, timestamp |-> now ]

NewInterface == [ pending_requests |-> << >>, completed_validations |-> << >> ]

notInterfaceVars ==
    << cpVars, htmlVars, fmtVars, files, backup_dir, audit_file, manager >>

HvInit ==
    /\ interface = NewInterface
    /\ http_response = None
    /\ clock = 0
    /\ call = None
    /\ files = None /\ backup_dir = None /\ audit_file = None /\ manager = None
    /\ NoContentPreservation /\ NoHtml /\ NoFormatter

SubmitForValidation(document_path) ==
    LET request_id == ValRequestId(clock, interface.pending_requests)
    IN  /\ interface # None
        /\ Cardinality(DOMAIN interface.pending_requests) < MaxRequests
        /\ interface' =
              [ interface EXCEPT !.pending_requests =
                    Put(@, request_id,
                        ValidationRequestOf(request_id, document_path, clock)) ]
        /\ call' = ReturnedFrom("submit_for_validation", [ request_id |-> request_id ])
        /\ UNCHANGED << http_response, clock, notInterfaceVars >>

NotFound == [ status_code |-> 404, json |-> [ error |-> "Request not found" ] ]

\* the two dictionaries after a reviewer's answer has been recorded
Reviewed(request_id, status, reviewer_comments) ==
    [ interface EXCEPT
        !.completed_validations =
            Put(@, request_id,
                ValidationResponseOf(request_id, status, reviewer_comments, clock)),
        !.pending_requests[request_id].status = status ]

ApproveChangesResponseOnly(request_id, reviewer_comments) ==
    /\ interface # None
    /\ request_id \in DOMAIN interface.pending_requests
    /\ interface' =
          [ interface EXCEPT !.completed_validations =
                Put(@, request_id,
                    ValidationResponseOf(request_id, "approved",
                                         reviewer_comments, clock)) ]
    /\ http_response' =
          [ status_code |-> 200,
            json |-> [ status |-> "approved",
                       message |-> "Changes approved successfully" ] ]
    /\ UNCHANGED << call, clock, notInterfaceVars >>

ApproveChanges(request_id, reviewer_comments) ==
    /\ interface # None
    /\ IF request_id \notin DOMAIN interface.pending_requests
       THEN /\ http_response' = NotFound
            /\ UNCHANGED interface
       ELSE /\ interface' = Reviewed(request_id, "approved", reviewer_comments)
            /\ http_response' =
                  [ status_code |-> 200,
                    json |-> [ status |-> "approved",
                               message |-> "Changes approved successfully" ] ]
    /\ UNCHANGED << call, clock, notInterfaceVars >>

RejectChanges(request_id, reviewer_comments) ==
    /\ interface # None
    /\ IF request_id \notin DOMAIN interface.pending_requests
       THEN /\ http_response' = NotFound
            /\ UNCHANGED interface
       ELSE /\ interface' = Reviewed(request_id, "rejected", reviewer_comments)
            /\ http_response' =
                  [ status_code |-> 200,
                    json |-> [ status |-> "rejected",
                               message |-> "Changes rejected" ] ]
    /\ UNCHANGED << call, clock, notInterfaceVars >>

HvTick ==
    /\ interface # None
    /\ clock + 1 \in Seconds
    /\ clock' = clock + 1
    /\ UNCHANGED << interface, http_response, call, notInterfaceVars >>

HvNext ==
    \/ \E d \in HvDocs : SubmitForValidation(d)
    \/ \E id \in PostedIds, c \in ReviewerComments : ApproveChanges(id, c)
    \/ \E id \in PostedIds, c \in ReviewerComments : RejectChanges(id, c)
    \/ HvTick

HvSpec == HvInit /\ [][HvNext]_vars

---------------------------------------------------------------------------
(* Claims about the validation interface                                   *)

CompletedArePending ==
    \A id \in DOMAIN interface.completed_validations :
        /\ id \in DOMAIN interface.pending_requests
        /\ interface.pending_requests[id].status =
              interface.completed_validations[id].status

\* C29: every submit_for_validation returns a request id that was not in use
\* and stores the request under it with status "pending", leaving the other
\* requests alone; every id in completed_validations is in pending_requests
\* with the status of its recorded response; approve or reject for an
\* unknown request id answers 404 and changes no dictionary.
C29_ValidationWorkflow ==
    /\ [](interface # None => CompletedArePending)
    /\ [][\A d \in HvDocs : SubmitForValidation(d) =>
             LET id == call'.returned.request_id
             IN  /\ id \notin DOMAIN interface.pending_requests
                 /\ id \in DOMAIN interface'.pending_requests
                 /\ interface'.pending_requests[id].status = "pending"
                 /\ interface'.pending_requests[id].document_path = d
                 /\ \A other \in DOMAIN interface.pending_requests :
                       interface'.pending_requests[other] =
                           interface.pending_requests[other]
                 /\ interface'.completed_validations =
                       interface.completed_validations]_vars
    /\ [][\A id \in PostedIds, c \in ReviewerComments :
             ((ApproveChanges(id, c) \/ RejectChanges(id, c))
                  /\ id \notin DOMAIN interface.pending_requests) =>
                 /\ http_response'.status_code = 404
                 /\ interface' = interface]_vars

\* two requests were submitted in the same second, one was approved and
\* later rejected, and an unknown id has been answered 404
C29_Witness ==
    /\ interface # None
    /\ \E a, b \in DOMAIN interface.pending_requests :
          /\ a # b /\ a.second = b.second
          /\ interface.pending_requests[a].status = "rejected"
          /\ interface.pending_requests[b].status = "pending"
    /\ http_response # None /\ http_response.status_code = 404

---------------------------------------------------------------------------
(* The paragraph classifiers on their own: a paragraph text is given to    *)
(* MultiStageFormatter._classify_paragraph and to                          *)
(* PatternBasedFormatter.pattern_classify, and result holds the label of   *)
(* each classifier that has been called                                    *)

\* what a paragraph text begins with
TextStarts ==
    { << >>, << "bullet", " " >>, <<"1","."," ">>, <<"(","a",")"," ">>, <<"E","n","s","u","r","e"," ">>, <<"N","O","T","E",":"," ">> }

\* what follows the beginning
TextBodies ==
    { <<"S","A","F","E","T","Y"," ","R","U","L","E","S">>,
      <<"S","T","A","F","F"," ","M","U","S","T"," ","R","E","P","O","R","T">>,
      <<"S","T","A","F","F"," ","M","U","S","T"," ","R","E","P","O","R","T",".">>,
      <<"S","a","f","e","t","y"," ","R","u","l","e","s">>,
      <<"S","a","f","e","t","y"," ","r","u","l","e","s"," ","a","r","e"," ","l","i","s","t","e","d"," ","h","e","r","e",".">>,
      <<"E","M","P","L","O","Y","E","E"," ","C","O","D","E"," ","O","F"," ","C","O","N","D","U","C","T"," ","A","N","D"," ","E","T","H","I","C","S"," ","H","A","N","D","B","O","O","K">>,
      <<"W","h","a","t"," ","i","s"," ","c","o","v","e","r","e","d","?">>,
      <<"P","O","L","I","C","Y">> }

\* texts of the lookup tables of the pattern-based formatter
TableTexts ==
    { <<"T","A","B","L","E"," ","O","F"," ","C","O","N","T","E","N","T","S">>, <<"\"","S","A","F","E","T","Y","\"">>, <<"M","e","n","'","s"," ","P","a","n","t"," ","W","e","a","r"," ","O","p","t","i","o","n","s">> }

ClassifyTexts == { a \o b : a \in TextStarts, b \in TextBodies } \cup TableTexts

ClassifyInit ==
    /\ formatter = "classifiers"
    /\ input_doc \in { << t >> : t \in ClassifyTexts }
    /\ result = << >>
    /\ rule_calls = 0
    /\ paths = None /\ output_doc = None /\ debug_info = None /\ ov = None
    /\ run = None /\ progress_file = None /\ request = None
    /\ NoContentPreservation
    /\ NoHtml
    /\ NoRollback
    /\ NoValidation

\* self._classify_paragraph(text)
ClassifyParagraph ==
    /\ formatter = "classifiers"
    /\ "multi_stage" \notin DOMAIN result
    /\ result' = Put(result, "multi_stage", _classify_paragraph(input_doc[1]))
    /\ UNCHANGED << formatter, paths, input_doc, output_doc, debug_info, rule_calls,
                    ov, run, progress_file, request, notFmtVars >>

\* self.pattern_classify(text): every return counts one rule call
PatternClassify ==
    /\ formatter = "classifiers"
    /\ "pattern_based" \notin DOMAIN result
    /\ result' = Put(result, "pattern_based", pattern_classify(input_doc[1]))
    /\ rule_calls' = rule_calls + 1
    /\ UNCHANGED << formatter, paths, input_doc, output_doc, debug_info,
                    ov, run, progress_file, request, notFmtVars >>

ClassifyNext == ClassifyParagraph \/ PatternClassify

ClassifySpec == ClassifyInit /\ [][ClassifyNext]_vars

---------------------------------------------------------------------------
(* Claims about repeated fingerprints and the paragraph classifiers        *)

\* the positions of the paragraphs of the document that are not blank, ascending
TextPositions == SortedSeq({ i \in 1..Len(doc) : ~Blank(doc[i]) })

\* C25: a second create_content_fingerprint on the same unmodified document
\* returns a fingerprint equal to the first in full_text_hash, paragraph_hashes,
\* structure_hash, word_count, character_count and numerical_values; the
\* paragraph hashes are one digest per paragraph with text, in source order.
C25_FingerprintDeterministic ==
    /\ [][(step = "fingerprinted" /\ step' = "fingerprinted again") =>
             /\ fingerprint'.full_text_hash = fingerprint.full_text_hash
             /\ fingerprint'.paragraph_hashes = fingerprint.paragraph_hashes
             /\ fingerprint'.structure_hash = fingerprint.structure_hash
             /\ fingerprint'.word_count = fingerprint.word_count
             /\ fingerprint'.character_count = fingerprint.character_count
             /\ fingerprint'.numerical_values = fingerprint.numerical_values]_vars
    /\ [](Fingerprinted =>
             /\ Len(fingerprint.paragraph_hashes) = Len(TextPositions)
             /\ \A k \in 1..Len(TextPositions) :
                   fingerprint.paragraph_hashes[k] = Sha256(doc[TextPositions[k]]))

\* a document with a numerical value and a blank paragraph has been
\* fingerprinted a second time
C25_Witness ==
    /\ step = "fingerprinted again"
    /\ fingerprint.timestamp = "t2"
    /\ fingerprint.numerical_values # << >>
    /\ Len(fingerprint.paragraph_hashes) < Len(doc)

---------------------------------------------------------------------------
(* Claims about the paragraph classifiers                                  *)

\* the text that is classified
ClassifiedText == str_strip(input_doc[1])

ShortNoPeriod(t) == Len(t) < 100 /\ ~EndsWith(t, << "." >>)

\* the rules of the Stage-3 tree in their order, the last one the default
TreeRuleApplies(n, t) ==
    CASE n = 1 -> ListPattern(t, MultiStageMarkers)
      [] n = 2 -> \E verb \in imperative_starts : StartsWith(str_lower(t), verb)
      [] n = 3 -> \E phrase \in modal_phrases : Contains(str_lower(t), phrase)
      [] n = 4 -> ShortNoPeriod(t) /\ str_isupper(t)
      [] n = 5 -> ShortNoPeriod(t) /\ str_istitle(t)
      [] n = 6 -> StartsWith(t, <<"N","O","T","E",":">>)
      [] n = 7 -> TRUE

TreeRuleLabels(n) ==
    CASE n \in { 1, 2, 3 } -> { ListParagraph }
      [] n = 4 -> { Heading1, Heading2 }
      [] n = 5 -> { Heading3 }
      [] n = 6 -> { Normal }
      [] n = 7 -> { BodyText }

FirstTreeRule(t) ==
    CHOOSE n \in 1..7 : TreeRuleApplies(n, t) /\ \A m \in 1..(n - 1) : ~TreeRuleApplies(m, t)

\* C26: _classify_paragraph gives every text the label of the first rule that
\* matches it, in the order list marker, imperative verb, modal phrase
\* (List Paragraph), short uppercase line without a final period (a heading),
\* short title-case line without a final period (Heading 3), 'NOTE:' (Normal),
\* otherwise Body Text; a short uppercase line with a modal phrase is a
\* List Paragraph.
C26_FirstMatchingRuleLabels ==
    "multi_stage" \in DOMAIN result =>
        /\ result["multi_stage"] \in TreeRuleLabels(FirstTreeRule(ClassifiedText))
        /\ (/\ ShortNoPeriod(ClassifiedText) /\ str_isupper(ClassifiedText)
            /\ \E phrase \in modal_phrases :
                  Contains(str_lower(ClassifiedText), phrase)) =>
                result["multi_stage"] = ListParagraph

\* the short uppercase line 'STAFF MUST REPORT' has been classified a list item
C26_Witness ==
    /\ formatter = "classifiers"
    /\ input_doc = << <<"S","T","A","F","F"," ","M","U","S","T"," ","R","E","P","O","R","T">> >>
    /\ TreeRuleApplies(3, ClassifiedText) /\ TreeRuleApplies(4, ClassifiedText)
    /\ "multi_stage" \in DOMAIN result
    /\ result["multi_stage"] = ListParagraph

InTables(t) ==
    t \in UNION { heading_1_matches, heading_2_matches, heading_3_matches,
                  heading_4_matches, heading_5_matches, normal_matches }

\* C28: pattern_classify is the lookup tables followed by the rule-based tree:
\* a text of none of the tables gets the label that _classify_paragraph gives it.
C28_PatternVariantFallsThroughToTree ==
    (/\ "pattern_based" \in DOMAIN result
     /\ "multi_stage" \in DOMAIN result
     /\ ~InTables(ClassifiedText)) =>
        result["pattern_based"] = result["multi_stage"]
====
